---- MODULE Spec2Model ----
(***************************************************************************)
(* The coverage delta engine of jacoco_delta, as pure functions applied to *)
(* bounded inputs, one specification per component:                        *)
(*   Spec, SpecSelf, SpecIncrement, SpecOneBranchLine                      *)
(*                 the delta calculator (core/calculator.py) and the       *)
(*                 differ (core/differ.py);                                *)
(*   SpecOrder     the same functions on insertion-ordered dicts;          *)
(*   SpecHeap      the same functions on a heap of dict objects;           *)
(*   SpecWindow    _get_extended_line_range (utils/report_generator.py);   *)
(*   SpecParser    the JaCoCo report parser (core/parser.py);              *)
(*   SpecRender    the formatters and the pair report (workflow/runner.py);*)
(*   SpecRepro     Reproducer.execute_test_case (utils/reproducer.py).     *)
(*                                                                         *)
(* A Python dict is a TLA+ function whose DOMAIN is the dict's key set; a  *)
(* (covered, total) tuple is a pair <<covered, total>>; a                  *)
(* LineCoverageDiff / BranchCoverageDiff dataclass is a record with the    *)
(* fields only_in_first and only_in_second.                                *)
(***************************************************************************)
EXTENDS Integers, Sequences, FiniteSets, TLC

\* ---------------------------------------------------------------- bounds
\* Line numbers of a file are 1..MaxLine.
MaxLine == 2
\* Hit counts, covered-branch counts and total-branch counts are 0..MaxCount.
MaxCount == 2
\* The two line-coverage maps of one call hold at most MaxLineEntries
\* entries in total (a line entry, or a file mapped to an empty dict).
MaxLineEntries == 3
\* The same for the two branch-coverage maps of one call.
MaxBranchEntries == 2
\* A line of the one-line branch calls has 0..MaxBranchTotal branches.
MaxBranchTotal == 3

\* The lines to highlight are a subset of 1..MaxWindowLine.
MaxWindowLine == 7
\* A file has 0..MaxFileLines lines.
MaxFileLines == 7
\* The context is 0..MaxContext lines on each side.
MaxContext == 2

\* The two maps of a call whose objects are looked at hold at most
\* MaxHeapEntries entries in total.
MaxHeapEntries == 2

\* The line numbers of a map given to a reader are in 1..MaxRenderLine.
MaxRenderLine == 3

\* A report given to parse_jacoco_line_coverage holds at most
\* MaxLineReportElems sourcefile and line elements in total.
MaxLineReportElems == 4
\* The same for a report given to parse_jacoco_branch_coverage.
MaxBranchReportElems == 3

\* ------------------------------------------------------------ data types
\* File paths; PathRank is their lexicographic (str) order.
Files == {"a.java", "b.java"}
PathRank(file_path) == IF file_path = "a.java" THEN 1 ELSE 2

Lines == 1..MaxLine
Counts == 0..MaxCount

\* The value of one line: a hit count (LineCoverageData) or a pair
\* <<covered, total>> (BranchCoverageData).
LineValues == Counts
BranchValues == Counts \X Counts

\* The empty dict {}.
EmptyDict == << >>

\* dict.get(key, {})
Get(d, key) == IF key \in DOMAIN d THEN d[key] ELSE EmptyDict

\* d[key] = value on a dict under construction
Put(d, key, value) ==
    [k \in (DOMAIN d) \cup {key} |-> IF k = key THEN value ELSE d[k]]

\* sorted(set of file paths): the paths in lexicographic order
RECURSIVE SortedPaths(_)
SortedPaths(paths) ==
    IF paths = {} THEN << >>
    ELSE LET least == CHOOSE p \in paths :
                          \A q \in paths : PathRank(p) <= PathRank(q)
         IN  <<least>> \o SortedPaths(paths \ {least})

\* ------------------------------------------------------------- inputs
\* The two arguments of one call, named as the differ names them; the
\* calculator receives first as baseline_coverage and second as
\* current_coverage.
Sides == {"first", "second"}
\* A line entry is (side, file, line); a slot is a (side, file) whose dict
\* is present.
EntryKeys == Sides \X Files \X Lines
Slots == Sides \X Files

\* The shapes of a pair of maps with at most n entries: the line entries D
\* and the files P that map to an empty dict.
InputShapes(n) ==
    { sh \in { D \in SUBSET EntryKeys : Cardinality(D) <= n } \X (SUBSET Slots) :
        /\ Cardinality(sh[1]) + Cardinality(sh[2]) <= n
        /\ \A p \in sh[2] : \A k \in sh[1] : <<k[1], k[2]>> # p }

\* The map of one side, of shape (D, P) and values f.
BuildMap(side, D, P, f) ==
    LET files == { k[2] : k \in { e \in D : e[1] = side } }
                 \cup { p[2] : p \in { s \in P : s[1] = side } }
    IN  [ file \in files |->
            [ line \in { k[3] : k \in { e \in D : e[1] = side /\ e[2] = file } }
                |-> f[<<side, file, line>>] ] ]

VARIABLES
    kind,    \* "line": the inputs are LineCoverageData; "branch": BranchCoverageData
    first,   \* first / baseline_coverage
    second,  \* second / current_coverage
    op,      \* the function that was called, "none" before the call
    result   \* what the call returned

\* The state of a call of _get_extended_line_range (report_generator.py).
VARIABLES
    line_numbers,     \* argument: the set of lines to highlight
    max_lines,        \* argument: the number of lines of the file
    context_lines,    \* argument: the lines of context on each side
    extended_ranges,  \* local: the candidate windows, (start, end) pairs
    merged_ranges,    \* local: the merged windows
    result_lines,     \* the returned list of (line number, is separator)
    wpc               \* "idle", "called", "returned"

\* The state of a call of parse_jacoco_line_coverage or
\* parse_jacoco_branch_coverage (core/parser.py).
VARIABLES
    parser_kind,  \* "line" or "branch": the function called; "idle": none
    report,       \* the XML file at xml_path
    outcome       \* how the call ended: returned a value or raised

\* The state of a call of a reader that renders a map to text: a formatter
\* (core/calculator.py, core/differ.py) or _generate_pair_report
\* (workflow/runner.py).
VARIABLES
    reader,          \* the function called; "none" before the call, "idle": none
    render_kind,     \* "increment": the argument is LineCoverageData; "diff": a
                     \* dict of LineCoverageDiff
    render_input,    \* its argument, a dict given by its items in insertion order
    formatted_lines  \* the text lines it emitted, in order

\* The objects of a call of calculate_line_coverage_increment or
\* compare_line_diff, where which dict object holds a map is looked at.
VARIABLES
    heap,        \* the contents of every dict and dataclass object, by reference
    first_ref,   \* argument: the reference of baseline_coverage / first
    second_ref,  \* argument: the reference of current_coverage / second
    result_ref,  \* the reference the call returned, 0 before the call
    heap_fn,     \* the function called, "none" before the call
    hpc          \* "idle", "ready", "returned", "result_changed", "input_changed"

\* The state of a call of Reproducer.execute_test_case (utils/reproducer.py).
VARIABLES
    test_case,                   \* argument: name and the two callbacks
    output_dir,                  \* argument
    collections,                 \* how the two coverage collections will end
    rpc,                         \* the statement execute_test_case is at
    calls,                       \* the callbacks and collections invoked so far
    precondition_status,         \* local
    precondition_error_message,  \* local
    property_status,             \* local
    property_error_message,      \* local
    test_data,                   \* self.data[test_case.name]
    propagated                   \* the exception that left the call, or "None"

deltaVars == <<kind, first, second, op, result>>
windowVars == <<line_numbers, max_lines, context_lines, extended_ranges,
                merged_ranges, result_lines, wpc>>
parserVars == <<parser_kind, report, outcome>>
renderVars == <<reader, render_kind, render_input, formatted_lines>>
heapVars == <<heap, first_ref, second_ref, result_ref, heap_fn, hpc>>
reproVars == <<test_case, output_dir, collections, rpc, calls,
               precondition_status, precondition_error_message,
               property_status, property_error_message, test_data, propagated>>
vars == <<deltaVars, windowVars, parserVars, renderVars, heapVars, reproVars>>

\* No call of the calculator or the differ is under way.
DeltaIdle ==
    /\ kind = "idle"
    /\ first = EmptyDict
    /\ second = EmptyDict
    /\ op = "idle"
    /\ result = EmptyDict

\* No call of _get_extended_line_range is under way.
WindowIdle ==
    /\ line_numbers = {}
    /\ max_lines = 0
    /\ context_lines = 0
    /\ extended_ranges = << >>
    /\ merged_ranges = << >>
    /\ result_lines = << >>
    /\ wpc = "idle"

\* No call of the parser is under way.
ParserIdle ==
    /\ parser_kind = "idle"
    /\ report = << >>
    /\ outcome = << >>

\* No call of a reader is under way.
RenderIdle ==
    /\ reader = "idle"
    /\ render_kind = "idle"
    /\ render_input = << >>
    /\ formatted_lines = << >>

\* No call that looks at the objects is under way.
HeapIdle ==
    /\ heap = << >>
    /\ first_ref = 0
    /\ second_ref = 0
    /\ result_ref = 0
    /\ heap_fn = "idle"
    /\ hpc = "idle"

\* No call of execute_test_case is under way.
ReproIdle ==
    /\ test_case = << >>
    /\ output_dir = ""
    /\ collections = << >>
    /\ rpc = "idle"
    /\ calls = << >>
    /\ precondition_status = "idle"
    /\ precondition_error_message = "None"
    /\ property_status = "idle"
    /\ property_error_message = "None"
    /\ test_data = << >>
    /\ propagated = "None"

\* -------------------------------------------------- core/calculator.py
\* Variants of LineAddedOrImproved, each a slip in calculator.py:36-41.
\* The "baseline == 0 and count > 0" branch is missing.
LineAddedOrImproved_NewOnly(baseline_lines, line_number, coverage_count) ==
    line_number \notin DOMAIN baseline_lines

\* "More coverage" instead of "new coverage": a higher count qualifies.
LineAddedOrImproved_Higher(baseline_lines, line_number, coverage_count) ==
    \/ line_number \notin DOMAIN baseline_lines
    \/ /\ line_number \in DOMAIN baseline_lines
       /\ baseline_lines[line_number] < coverage_count

\* The "coverage_count > 0" test is missing.
LineAddedOrImproved_ZeroBaseline(baseline_lines, line_number, coverage_count) ==
    \/ line_number \notin DOMAIN baseline_lines
    \/ /\ line_number \in DOMAIN baseline_lines
       /\ baseline_lines[line_number] = 0

\* "coverage_count > 0" is asked of a new line too.
LineAddedOrImproved_CoveredOnly(baseline_lines, line_number, coverage_count) ==
    /\ coverage_count > 0
    /\ \/ line_number \notin DOMAIN baseline_lines
       \/ /\ line_number \in DOMAIN baseline_lines
          /\ baseline_lines[line_number] = 0

\* A line whose count differs from the baseline's qualifies.
LineAddedOrImproved_Changed(baseline_lines, line_number, coverage_count) ==
    \/ line_number \notin DOMAIN baseline_lines
    \/ /\ line_number \in DOMAIN baseline_lines
       /\ baseline_lines[line_number] # coverage_count

\* calculator.py:36-41: the current line qualifies for the increment
LineAddedOrImproved(baseline_lines, line_number, coverage_count) ==
    \/ line_number \notin DOMAIN baseline_lines
    \/ /\ line_number \in DOMAIN baseline_lines
       /\ baseline_lines[line_number] = 0
       /\ coverage_count > 0

\* Variant of AddedOrImprovedLines: every line of current is taken.
AddedOrImprovedLines_Unfiltered(baseline_lines, current_lines) == current_lines

\* calculator.py:34-41: added_or_improved_lines of one file
AddedOrImprovedLines(baseline_lines, current_lines) ==
    [ line_number \in
        { l \in DOMAIN current_lines :
            LineAddedOrImproved(baseline_lines, l, current_lines[l]) }
      |-> current_lines[line_number] ]

\* Variant of Truthy: the emptiness test is missing.
Truthy_Always(d) == TRUE

\* calculator.py:44 / 115: "if added_or_improved_lines:" (a non-empty dict)
Truthy(d) == DOMAIN d # {}

\* calculator.py:29-45: the loop over sorted(all_file_paths), from index i
RECURSIVE LineIncrementLoop(_, _, _, _, _)
LineIncrementLoop(paths, i, baseline_coverage, current_coverage, acc) ==
    IF i > Len(paths) THEN acc
    ELSE LET file_path == paths[i]
             baseline_lines == Get(baseline_coverage, file_path)
             current_lines == Get(current_coverage, file_path)
             added == AddedOrImprovedLines(baseline_lines, current_lines)
         IN  LineIncrementLoop(paths, i + 1, baseline_coverage, current_coverage,
                 IF Truthy(added) THEN Put(acc, file_path, added) ELSE acc)

calculate_line_coverage_increment(baseline_coverage, current_coverage) ==
    LET all_file_paths == (DOMAIN baseline_coverage) \cup (DOMAIN current_coverage)
    IN  LineIncrementLoop(SortedPaths(all_file_paths), 1,
                          baseline_coverage, current_coverage, EmptyDict)

\* Variants of BranchAddedOrImproved, each a slip in calculator.py:102-112.
\* The "current_covered_count > 0" test of the total-increased case is missing.
BranchAddedOrImproved_AnyNewTotal(baseline_branches, line_number, current_pair) ==
    IF line_number \notin DOMAIN baseline_branches THEN TRUE
    ELSE \/ /\ baseline_branches[line_number][2] = current_pair[2]
            /\ current_pair[1] > baseline_branches[line_number][1]
         \/ current_pair[2] > baseline_branches[line_number][2]

\* The "baseline_total_count == current_total_count" test is missing.
BranchAddedOrImproved_AnyTotal(baseline_branches, line_number, current_pair) ==
    IF line_number \notin DOMAIN baseline_branches THEN TRUE
    ELSE \/ current_pair[1] > baseline_branches[line_number][1]
         \/ /\ current_pair[2] > baseline_branches[line_number][2]
            /\ current_pair[1] > 0

\* A higher total qualifies only with more covered branches than before.
BranchAddedOrImproved_MoreCovered(baseline_branches, line_number, current_pair) ==
    IF line_number \notin DOMAIN baseline_branches THEN TRUE
    ELSE /\ current_pair[2] >= baseline_branches[line_number][2]
         /\ current_pair[1] > baseline_branches[line_number][1]

\* calculator.py:102-112: the current branch line qualifies for the increment
BranchAddedOrImproved(baseline_branches, line_number, current_pair) ==
    LET current_covered_count == current_pair[1]
        current_total_count == current_pair[2]
    IN  IF line_number \notin DOMAIN baseline_branches THEN TRUE
        ELSE LET baseline_covered_count == baseline_branches[line_number][1]
                 baseline_total_count == baseline_branches[line_number][2]
             IN  \/ /\ baseline_total_count = current_total_count
                    /\ current_covered_count > baseline_covered_count
                 \/ /\ current_total_count > baseline_total_count
                    /\ current_covered_count > 0

\* calculator.py:100-112: added_or_improved_branches of one file
AddedOrImprovedBranches(baseline_branches, current_branches) ==
    [ line_number \in
        { l \in DOMAIN current_branches :
            BranchAddedOrImproved(baseline_branches, l, current_branches[l]) }
      |-> current_branches[line_number] ]

\* calculator.py:95-116: the loop over sorted(all_file_paths), from index i
RECURSIVE BranchIncrementLoop(_, _, _, _, _)
BranchIncrementLoop(paths, i, baseline_coverage, current_coverage, acc) ==
    IF i > Len(paths) THEN acc
    ELSE LET file_path == paths[i]
             baseline_branches == Get(baseline_coverage, file_path)
             current_branches == Get(current_coverage, file_path)
             added == AddedOrImprovedBranches(baseline_branches, current_branches)
         IN  BranchIncrementLoop(paths, i + 1, baseline_coverage, current_coverage,
                 IF Truthy(added) THEN Put(acc, file_path, added) ELSE acc)

calculate_branch_coverage_increment(baseline_coverage, current_coverage) ==
    LET all_file_paths == (DOMAIN baseline_coverage) \cup (DOMAIN current_coverage)
    IN  BranchIncrementLoop(SortedPaths(all_file_paths), 1,
                            baseline_coverage, current_coverage, EmptyDict)

\* ------------------------------------------------------ core/differ.py
\* Variant of OnlyIn: a line on both sides with different values counts too.
OnlyIn_ValueAware(a, b) ==
    [ line \in { l \in DOMAIN a : l \notin DOMAIN b \/ a[l] # b[l] } |-> a[line] ]

\* differ.py:25 / 28 / 48 / 51: {line: a[line] for line in a if line not in b}
OnlyIn(a, b) ==
    [ line \in { l \in DOMAIN a : l \notin DOMAIN b } |-> a[line] ]

\* Variant of compare_line_diff_for_file: the "if line not in ..." filters
\* are missing.
compare_line_diff_for_file_Unfiltered(lines_in_first, lines_in_second) ==
    [ only_in_first |-> lines_in_first, only_in_second |-> lines_in_second ]

\* differ.py:10-30
compare_line_diff_for_file(lines_in_first, lines_in_second) ==
    [ only_in_first |-> OnlyIn(lines_in_first, lines_in_second),
      only_in_second |-> OnlyIn(lines_in_second, lines_in_first) ]

\* differ.py:33-53
compare_branch_diff_for_file(branches_in_first, branches_in_second) ==
    [ only_in_first |-> OnlyIn(branches_in_first, branches_in_second),
      only_in_second |-> OnlyIn(branches_in_second, branches_in_first) ]

\* Variant of HasDiff: the test is missing, every file gets a diff object.
HasDiff_Always(file_diff) == TRUE

\* Variant of HasDiff: only_in_second is not looked at.
HasDiff_FirstOnly(file_diff) == Truthy(file_diff.only_in_first)

\* differ.py:83 / 116: "if file_diff.only_in_first or file_diff.only_in_second:"
HasDiff(file_diff) ==
    Truthy(file_diff.only_in_first) \/ Truthy(file_diff.only_in_second)

\* differ.py:75-84: the loop over sorted(all_files), from index i
RECURSIVE LineDiffLoop(_, _, _, _, _)
LineDiffLoop(paths, i, a, b, diff_result) ==
    IF i > Len(paths) THEN diff_result
    ELSE LET file == paths[i]
             file_diff == compare_line_diff_for_file(Get(a, file), Get(b, file))
         IN  LineDiffLoop(paths, i + 1, a, b,
                 IF HasDiff(file_diff) THEN Put(diff_result, file, file_diff)
                 ELSE diff_result)

compare_line_diff(a, b) ==
    LET all_files == (DOMAIN a) \cup (DOMAIN b)
    IN  LineDiffLoop(SortedPaths(all_files), 1, a, b, EmptyDict)

\* differ.py:108-117: the loop over sorted(all_files), from index i
RECURSIVE BranchDiffLoop(_, _, _, _, _)
BranchDiffLoop(paths, i, a, b, diff_result) ==
    IF i > Len(paths) THEN diff_result
    ELSE LET file == paths[i]
             file_diff == compare_branch_diff_for_file(Get(a, file), Get(b, file))
         IN  BranchDiffLoop(paths, i + 1, a, b,
                 IF HasDiff(file_diff) THEN Put(diff_result, file, file_diff)
                 ELSE diff_result)

compare_branch_diff(a, b) ==
    LET all_files == (DOMAIN a) \cup (DOMAIN b)
    IN  BranchDiffLoop(SortedPaths(all_files), 1, a, b, EmptyDict)

\* ------------------------------------------------------- specification
InitLine ==
    /\ kind = "line"
    /\ \E sh \in InputShapes(MaxLineEntries) : \E f \in [sh[1] -> LineValues] :
         /\ first = BuildMap("first", sh[1], sh[2], f)
         /\ second = BuildMap("second", sh[1], sh[2], f)

InitBranch ==
    /\ kind = "branch"
    /\ \E sh \in InputShapes(MaxBranchEntries) : \E f \in [sh[1] -> BranchValues] :
         /\ first = BuildMap("first", sh[1], sh[2], f)
         /\ second = BuildMap("second", sh[1], sh[2], f)

Init ==
    /\ InitLine \/ InitBranch
    /\ op = "none"
    /\ result = EmptyDict
    /\ WindowIdle
    /\ ParserIdle
    /\ RenderIdle
    /\ HeapIdle
    /\ ReproIdle

CalcLineIncrement ==
    /\ op = "none"
    /\ kind = "line"
    /\ result' = calculate_line_coverage_increment(first, second)
    /\ op' = "line_increment"
    /\ UNCHANGED <<kind, first, second>>
    /\ UNCHANGED <<windowVars, parserVars, renderVars, heapVars, reproVars>>

CalcBranchIncrement ==
    /\ op = "none"
    /\ kind = "branch"
    /\ result' = calculate_branch_coverage_increment(first, second)
    /\ op' = "branch_increment"
    /\ UNCHANGED <<kind, first, second>>
    /\ UNCHANGED <<windowVars, parserVars, renderVars, heapVars, reproVars>>

CompareLineDiff ==
    /\ op = "none"
    /\ kind = "line"
    /\ result' = compare_line_diff(first, second)
    /\ op' = "line_diff"
    /\ UNCHANGED <<kind, first, second>>
    /\ UNCHANGED <<windowVars, parserVars, renderVars, heapVars, reproVars>>

CompareBranchDiff ==
    /\ op = "none"
    /\ kind = "branch"
    /\ result' = compare_branch_diff(first, second)
    /\ op' = "branch_diff"
    /\ UNCHANGED <<kind, first, second>>
    /\ UNCHANGED <<windowVars, parserVars, renderVars, heapVars, reproVars>>

Next ==
    \/ CalcLineIncrement
    \/ CalcBranchIncrement
    \/ CompareLineDiff
    \/ CompareBranchDiff

Spec == Init /\ [][Next]_vars

\* The increment of the result of an increment, against the same baseline:
\* calculate_line_coverage_increment(baseline, previous result).
IncrementLineResult ==
    /\ op = "line_increment"
    /\ result' = calculate_line_coverage_increment(first, result)
    /\ op' = "line_increment_again"
    /\ UNCHANGED <<kind, first, second>>
    /\ UNCHANGED <<windowVars, parserVars, renderVars, heapVars, reproVars>>

IncrementBranchResult ==
    /\ op = "branch_increment"
    /\ result' = calculate_branch_coverage_increment(first, result)
    /\ op' = "branch_increment_again"
    /\ UNCHANGED <<kind, first, second>>
    /\ UNCHANGED <<windowVars, parserVars, renderVars, heapVars, reproVars>>

NextIncrement ==
    \/ CalcLineIncrement
    \/ CalcBranchIncrement
    \/ IncrementLineResult
    \/ IncrementBranchResult

SpecIncrement == Init /\ [][NextIncrement]_vars

\* The calls of calculate_branch_coverage_increment on one line of one
\* file, with up to MaxBranchTotal branches on the line on either side.
BranchPairs == { p \in (0..MaxBranchTotal) \X (0..MaxBranchTotal) : p[1] <= p[2] }

InitOneBranchLine ==
    /\ kind = "branch"
    /\ \E b \in BranchPairs : first = ("a.java" :> (1 :> b))
    /\ \E c \in BranchPairs : second = ("a.java" :> (1 :> c))
    /\ op = "none"
    /\ result = EmptyDict
    /\ WindowIdle
    /\ ParserIdle
    /\ RenderIdle
    /\ HeapIdle
    /\ ReproIdle

SpecOneBranchLine == InitOneBranchLine /\ [][CalcBranchIncrement]_vars

\* The calls whose two arguments are the same map A, of at most
\* MaxLineEntries (MaxBranchEntries) entries.
OneSided(sh) ==
    /\ \A k \in sh[1] : k[1] = "first"
    /\ \A p \in sh[2] : p[1] = "first"

InitSelf ==
    /\ \/ /\ kind = "line"
          /\ \E sh \in { x \in InputShapes(MaxLineEntries) : OneSided(x) } :
               \E f \in [sh[1] -> LineValues] :
                   first = BuildMap("first", sh[1], sh[2], f)
       \/ /\ kind = "branch"
          /\ \E sh \in { x \in InputShapes(MaxBranchEntries) : OneSided(x) } :
               \E f \in [sh[1] -> BranchValues] :
                   first = BuildMap("first", sh[1], sh[2], f)
    /\ second = first
    /\ op = "none"
    /\ result = EmptyDict
    /\ WindowIdle
    /\ ParserIdle
    /\ RenderIdle
    /\ HeapIdle
    /\ ReproIdle

SpecSelf == InitSelf /\ [][Next]_vars

\* ------------------------------------- utils/report_generator.py:134-187
Max(a, b) == IF a >= b THEN a ELSE b
Min(a, b) == IF a <= b THEN a ELSE b

\* report_generator.py:151: sorted(list(line_numbers))
RECURSIVE SortedLines(_)
SortedLines(numbers) ==
    IF numbers = {} THEN << >>
    ELSE LET least == CHOOSE x \in numbers : \A y \in numbers : x <= y
         IN  <<least>> \o SortedLines(numbers \ {least})

\* Variant of CandidateWindow: the end is not clamped to the file.
CandidateWindow_NoUpperClamp(line_num, maxl, context) ==
    <<Max(1, line_num - context), line_num + context>>

\* report_generator.py:155-157: the candidate window (start, end) of a line
CandidateWindow(line_num, maxl, context) ==
    <<Max(1, line_num - context), Min(maxl, line_num + context)>>

\* report_generator.py:153-157: the loop building extended_ranges
ExtendedRanges(sorted_lines, maxl, context) ==
    [ i \in 1..Len(sorted_lines) |-> CandidateWindow(sorted_lines[i], maxl, context) ]

\* Variant of ShouldMerge: adjacent windows are not merged.
ShouldMerge_OverlapOnly(start, current_end) == start <= current_end

\* Variant of ShouldMerge: the windows are never merged.
ShouldMerge_Never(start, current_end) == FALSE

\* Variant of ShouldMerge: a gap of one hidden line is merged away too.
ShouldMerge_GapOfOne(start, current_end) == start <= current_end + 2

\* report_generator.py:166: "if start <= current_end + 1"
ShouldMerge(start, current_end) == start <= current_end + 1

\* report_generator.py:164-174: the merge loop from index i, and the append
\* of the last range after it
RECURSIVE MergeLoop(_, _, _, _, _)
MergeLoop(ranges, i, current_start, current_end, merged) ==
    IF i > Len(ranges) THEN Append(merged, <<current_start, current_end>>)
    ELSE LET start == ranges[i][1]
             end == ranges[i][2]
         IN  IF ShouldMerge(start, current_end)
             THEN MergeLoop(ranges, i + 1, current_start, Max(current_end, end), merged)
             ELSE MergeLoop(ranges, i + 1, start, end,
                            Append(merged, <<current_start, current_end>>))

\* report_generator.py:160-174
MergedRanges(ranges) ==
    IF ranges = << >> THEN << >>
    ELSE MergeLoop(ranges, 2, ranges[1][1], ranges[1][2], << >>)

\* report_generator.py:185: the separator entry (-1, True)
Separator == <<-1, TRUE>>

\* report_generator.py:180-181: (line_num, False) for range(start, end + 1)
RangeEntries(start, end) ==
    [ k \in 1..(end - start + 1) |-> <<start + k - 1, FALSE>> ]

\* Variant of SeparatorAfter: a separator follows every range.
SeparatorAfter_Every(i, n) == TRUE

\* report_generator.py:184: "if i < len(merged_ranges) - 1", i counted from 1
SeparatorAfter(i, n) == i < n

\* report_generator.py:178-185: the loop over merged_ranges from index i
RECURSIVE EmitLoop(_, _, _)
EmitLoop(merged, i, acc) ==
    IF i > Len(merged) THEN acc
    ELSE LET with_lines == acc \o RangeEntries(merged[i][1], merged[i][2])
         IN  EmitLoop(merged, i + 1,
                 IF SeparatorAfter(i, Len(merged))
                 THEN Append(with_lines, Separator) ELSE with_lines)

\* Variant of get_extended_line_range: neither "if not line_numbers" nor
\* "if extended_ranges" guards extended_ranges[0], which raises IndexError
\* on an empty list.
get_extended_line_range_Unguarded(numbers, maxl, context) ==
    LET extended == ExtendedRanges(SortedLines(numbers), maxl, context)
        merged == MergedRanges(extended)
    IN  IF extended = << >>
        THEN [ extended_ranges |-> << >>, merged_ranges |-> << >>,
               result_lines |-> <<"IndexError">> ]
        ELSE [ extended_ranges |-> extended, merged_ranges |-> merged,
               result_lines |-> EmitLoop(merged, 1, << >>) ]

\* report_generator.py:134-187: the locals and the returned list
get_extended_line_range(numbers, maxl, context) ==
    IF numbers = {}
    THEN [ extended_ranges |-> << >>, merged_ranges |-> << >>,
           result_lines |-> << >> ]
    ELSE LET extended == ExtendedRanges(SortedLines(numbers), maxl, context)
             merged == MergedRanges(extended)
         IN  [ extended_ranges |-> extended, merged_ranges |-> merged,
               result_lines |-> EmitLoop(merged, 1, << >>) ]

\* The calls the design document gives as scenarios.
ExampleCalls ==
    { [ line_numbers |-> {10, 12}, max_lines |-> 20, context_lines |-> 1 ],
      [ line_numbers |-> {5, 50}, max_lines |-> 100, context_lines |-> 2 ],
      [ line_numbers |-> {1}, max_lines |-> 10, context_lines |-> 5 ] }

BoundedCalls ==
    [ line_numbers : SUBSET (1..MaxWindowLine),
      max_lines : 0..MaxFileLines,
      context_lines : 0..MaxContext ]

InitWindow ==
    /\ \E call \in BoundedCalls \cup ExampleCalls :
           /\ line_numbers = call.line_numbers
           /\ max_lines = call.max_lines
           /\ context_lines = call.context_lines
    /\ extended_ranges = << >>
    /\ merged_ranges = << >>
    /\ result_lines = << >>
    /\ wpc = "called"
    /\ DeltaIdle
    /\ ParserIdle
    /\ RenderIdle
    /\ HeapIdle
    /\ ReproIdle

GetExtendedLineRange ==
    /\ wpc = "called"
    /\ LET r == get_extended_line_range(line_numbers, max_lines, context_lines)
       IN  /\ extended_ranges' = r.extended_ranges
           /\ merged_ranges' = r.merged_ranges
           /\ result_lines' = r.result_lines
    /\ wpc' = "returned"
    /\ UNCHANGED <<line_numbers, max_lines, context_lines>>
    /\ UNCHANGED <<deltaVars, parserVars, renderVars, heapVars, reproVars>>

NextWindow == GetExtendedLineRange

SpecWindow == InitWindow /\ [][NextWindow]_vars

\* ------------------------------------------------------ core/parser.py
\* An XML element's attributes are a function from the names of the
\* attributes it has to their text. A report is a record: ok says whether
\* ET.parse accepts the file; sourcefiles holds the sourcefile elements in
\* the order of the two nested loops (parser.py:24-27), each with the
\* attributes of its package, its own attributes and its line elements.

\* int(text): the texts that are integers, and their values
IntText == ("-1" :> (0 - 1)) @@ ("0" :> 0) @@ ("1" :> 1) @@ ("2" :> 2)

\* int(elem.get(name, 0)): ok is FALSE where int() raises ValueError
IntAttr(elem, name) ==
    IF name \notin DOMAIN elem THEN [ ok |-> TRUE, value |-> 0 ]
    ELSE IF elem[name] \in DOMAIN IntText
         THEN [ ok |-> TRUE, value |-> IntText[elem[name]] ]
         ELSE [ ok |-> FALSE, value |-> 0 ]

\* parser.py:25 / 88: package_elem.get('name', '')
PackageName(package_attrs) ==
    IF "name" \in DOMAIN package_attrs THEN package_attrs["name"] ELSE ""

\* parser.py:28-30 / 91-93: "if not source_file: continue"
HasSourceName(source_attrs) ==
    "name" \in DOMAIN source_attrs /\ source_attrs["name"] # ""

\* Variant of FullPath: the package is prefixed even when it is empty.
FullPath_AlwaysPrefixed(package_name, source_file) ==
    package_name \o "/" \o source_file

\* parser.py:33 / 95: f"{package_name}/{source_file}" if package_name else source_file
FullPath(package_name, source_file) ==
    IF package_name # "" THEN package_name \o "/" \o source_file ELSE source_file

\* Variant of LineIsCovered: lines without hits are recorded too.
LineIsCovered_Always(covered_times) == TRUE

\* parser.py:40: "if covered_times > 0"
LineIsCovered(covered_times) == covered_times > 0

\* parser.py:37-41: the loop over the line elements of a sourcefile, from
\* index i; error is the exception raised, "" if none
RECURSIVE LineElemsLoop(_, _, _)
LineElemsLoop(elems, i, lines) ==
    IF i > Len(elems) THEN [ error |-> "", lines |-> lines ]
    ELSE LET line_nr == IntAttr(elems[i], "nr")
             covered_times == IntAttr(elems[i], "ci")
         IN  IF ~line_nr.ok \/ ~covered_times.ok
             THEN [ error |-> "ValueError", lines |-> lines ]
             ELSE LineElemsLoop(elems, i + 1,
                      IF LineIsCovered(covered_times.value)
                      THEN Put(lines, line_nr.value, covered_times.value)
                      ELSE lines)

\* parser.py:24-44: the loops over packages and sourcefiles, from index i
RECURSIVE LineFilesLoop(_, _, _)
LineFilesLoop(sourcefiles, i, line_coverage) ==
    IF i > Len(sourcefiles) THEN [ error |-> "", data |-> line_coverage ]
    ELSE LET package_name == PackageName(sourcefiles[i].package)
             source_attrs == sourcefiles[i].attrs
         IN  IF ~HasSourceName(source_attrs)
             THEN LineFilesLoop(sourcefiles, i + 1, line_coverage)
             ELSE LET full_path == FullPath(package_name, source_attrs["name"])
                      r == LineElemsLoop(sourcefiles[i].lines, 1, EmptyDict)
                  IN  IF r.error # ""
                      THEN [ error |-> r.error, data |-> line_coverage ]
                      ELSE LineFilesLoop(sourcefiles, i + 1,
                               IF Truthy(r.lines)
                               THEN Put(line_coverage, full_path, r.lines)
                               ELSE line_coverage)

\* Variant of HasBranches: only lines with a covered branch are recorded.
HasBranches_CoveredOnly(cb, total_branches) == cb > 0

\* parser.py:104: "if total_branches > 0"
HasBranches(cb, total_branches) == total_branches > 0

\* parser.py:98-105: the loop over the line elements of a sourcefile
RECURSIVE BranchElemsLoop(_, _, _)
BranchElemsLoop(elems, i, lines) ==
    IF i > Len(elems) THEN [ error |-> "", lines |-> lines ]
    ELSE LET line_num == IntAttr(elems[i], "nr")
             mb == IntAttr(elems[i], "mb")
             cb == IntAttr(elems[i], "cb")
             total_branches == mb.value + cb.value
         IN  IF ~line_num.ok \/ ~mb.ok \/ ~cb.ok
             THEN [ error |-> "ValueError", lines |-> lines ]
             ELSE BranchElemsLoop(elems, i + 1,
                      IF HasBranches(cb.value, total_branches)
                      THEN Put(lines, line_num.value, <<cb.value, total_branches>>)
                      ELSE lines)

\* parser.py:87-108: the loops over packages and sourcefiles, from index i
RECURSIVE BranchFilesLoop(_, _, _)
BranchFilesLoop(sourcefiles, i, branch_coverage) ==
    IF i > Len(sourcefiles) THEN [ error |-> "", data |-> branch_coverage ]
    ELSE LET package_name == PackageName(sourcefiles[i].package)
             source_attrs == sourcefiles[i].attrs
         IN  IF ~HasSourceName(source_attrs)
             THEN BranchFilesLoop(sourcefiles, i + 1, branch_coverage)
             ELSE LET full_file_path == FullPath(package_name, source_attrs["name"])
                      r == BranchElemsLoop(sourcefiles[i].lines, 1, EmptyDict)
                  IN  IF r.error # ""
                      THEN [ error |-> r.error, data |-> branch_coverage ]
                      ELSE BranchFilesLoop(sourcefiles, i + 1,
                               IF Truthy(r.lines)
                               THEN Put(branch_coverage, full_file_path, r.lines)
                               ELSE branch_coverage)

\* Variant of ExceptAndReturn: the except block logs and does not re-raise,
\* so the function goes on to return what it had built.
ExceptAndReturn_Swallowed(r) == [ status |-> "returned", value |-> r.data ]

\* parser.py:46-50 / 110-114: the except block logs and re-raises; without
\* an exception the map is returned
ExceptAndReturn(r) ==
    IF r.error # "" THEN [ status |-> "raised", error |-> r.error ]
    ELSE [ status |-> "returned", value |-> r.data ]

\* parser.py:13-50; ET.parse (line 21) raises ParseError on a malformed file
parse_jacoco_line_coverage(xml) ==
    ExceptAndReturn(IF ~xml.ok THEN [ error |-> "ParseError", data |-> EmptyDict ]
                    ELSE LineFilesLoop(xml.sourcefiles, 1, EmptyDict))

\* parser.py:76-114
parse_jacoco_branch_coverage(xml) ==
    ExceptAndReturn(IF ~xml.ok THEN [ error |-> "ParseError", data |-> EmptyDict ]
                    ELSE BranchFilesLoop(xml.sourcefiles, 1, EmptyDict))

\* The reports. An attribute is absent or has one of a few texts; "x" is a
\* text that is no integer.
Absent == "<absent>"
Attr(name, text) == IF text = Absent THEN EmptyDict ELSE (name :> text)

PackageAttrs == { Attr("name", t) : t \in {Absent, "p"} }
SourceAttrs == { Attr("name", t) : t \in {Absent, "A.java"} }
NrTexts == {Absent, "1", "2"}
LineParserElems ==
    { Attr("nr", n) @@ Attr("ci", c) :
        n \in NrTexts, c \in {Absent, "0", "1", "2", "x"} }
BranchParserElems ==
    { Attr("nr", n) @@ Attr("mb", m) @@ Attr("cb", c) :
        n \in NrTexts, m \in {"-1", "0", "1"}, c \in {Absent, "0", "1", "2", "x"} }

RECURSIVE SumTo(_, _)
SumTo(cnt, i) == IF i = 0 THEN 0 ELSE SumTo(cnt, i - 1) + cnt[i]

\* The report whose i-th sourcefile element has the package and attributes
\* heads[i] and the next cnt[i] line elements of flat.
BuildReport(heads, cnt, flat) ==
    [ ok |-> TRUE,
      sourcefiles |->
        [ i \in DOMAIN heads |->
            [ package |-> heads[i][1],
              attrs |-> heads[i][2],
              lines |-> SubSeq(flat, SumTo(cnt, i - 1) + 1, SumTo(cnt, i)) ] ] ]

\* The file ET.parse rejects.
MalformedReport == [ ok |-> FALSE, sourcefiles |-> << >> ]

\* report is a report of at most budget elements with line elements of elems.
ReportIn(budget, elems) ==
    \/ report = MalformedReport
    \/ \E n \in 0..budget : \E k \in 0..(budget - n) :
         \E heads \in [1..n -> PackageAttrs \X SourceAttrs] :
           \E cnt \in { c \in [1..n -> 0..k] : SumTo(c, n) = k } :
             \E flat \in [1..k -> elems] :
                 report = BuildReport(heads, cnt, flat)

InitParser ==
    /\ \/ parser_kind = "line" /\ ReportIn(MaxLineReportElems, LineParserElems)
       \/ parser_kind = "branch" /\ ReportIn(MaxBranchReportElems, BranchParserElems)
    /\ outcome = [ status |-> "called" ]
    /\ DeltaIdle
    /\ WindowIdle
    /\ RenderIdle
    /\ HeapIdle
    /\ ReproIdle

ParseLineCoverage ==
    /\ parser_kind = "line"
    /\ outcome.status = "called"
    /\ outcome' = parse_jacoco_line_coverage(report)
    /\ UNCHANGED <<parser_kind, report>>
    /\ UNCHANGED <<deltaVars, windowVars, renderVars, heapVars, reproVars>>

ParseBranchCoverage ==
    /\ parser_kind = "branch"
    /\ outcome.status = "called"
    /\ outcome' = parse_jacoco_branch_coverage(report)
    /\ UNCHANGED <<parser_kind, report>>
    /\ UNCHANGED <<deltaVars, windowVars, renderVars, heapVars, reproVars>>

NextParser ==
    \/ ParseLineCoverage
    \/ ParseBranchCoverage

SpecParser == InitParser /\ [][NextParser]_vars

\* ------------------------------------------- file order of the results
\* A Python dict keeps its keys in insertion order.  Where that order is
\* what is looked at, a map of files is the sequence of its (key, value)
\* items, and first, second and result hold such sequences; the dict of one
\* file stays a function.

\* The items of dict d, inserted in the order of the sequence order.
Items(d, order) == [ i \in DOMAIN order |-> <<order[i], d[order[i]]>> ]

\* d.keys(), as set() takes them
Keys(items) == { items[i][1] : i \in DOMAIN items }

\* The mapping of the items, whatever their order.
AsDict(items) ==
    [ k \in Keys(items) |->
        items[CHOOSE i \in DOMAIN items : items[i][1] = k][2] ]

\* The orders in which the keys S can have been inserted.
Orders(S) ==
    { o \in [1..Cardinality(S) -> S] :
        \A i, j \in 1..Cardinality(S) : o[i] = o[j] => i = j }

RECURSIVE Reversed(_)
Reversed(seq) ==
    IF seq = << >> THEN << >> ELSE Reversed(Tail(seq)) \o <<Head(seq)>>

\* Variant of FileOrder: "for file_path in all_file_paths", without
\* sorted(); a set of str is iterated in hash order, here the reverse of
\* the lexicographic one.
FileOrder_Unsorted(all_files) == Reversed(SortedPaths(all_files))

\* calculator.py:29 / 95, differ.py:75 / 108: sorted(all_files)
FileOrder(all_files) == SortedPaths(all_files)

\* The value the loop body of function fn computes for one file.
FileResult(fn, in_first, in_second) ==
    CASE fn = "line_increment" -> AddedOrImprovedLines(in_first, in_second)
      [] fn = "branch_increment" -> AddedOrImprovedBranches(in_first, in_second)
      [] fn = "line_diff" -> compare_line_diff_for_file(in_first, in_second)
      [] fn = "branch_diff" -> compare_branch_diff_for_file(in_first, in_second)

\* The test under which the loop body of fn inserts the file.
IsInserted(fn, value) ==
    IF fn \in {"line_increment", "branch_increment"} THEN Truthy(value)
    ELSE HasDiff(value)

\* The loop of fn over the files paths, from index i; items are the items
\* of the result dict so far.  Every path is visited once, so an insertion
\* is an append.
RECURSIVE FileLoopInOrder(_, _, _, _, _, _)
FileLoopInOrder(fn, paths, i, a, b, items) ==
    IF i > Len(paths) THEN items
    ELSE LET value == FileResult(fn, Get(a, paths[i]), Get(b, paths[i]))
         IN  FileLoopInOrder(fn, paths, i + 1, a, b,
                 IF IsInserted(fn, value)
                 THEN Append(items, <<paths[i], value>>) ELSE items)

\* The items of the dict fn returns for the dicts of items a_items, b_items.
CallInOrder(fn, a_items, b_items) ==
    LET all_files == Keys(a_items) \cup Keys(b_items)
    IN  FileLoopInOrder(fn, FileOrder(all_files), 1,
                        AsDict(a_items), AsDict(b_items), << >>)

\* The dicts of one file: empty, or line 1 with a value.
FileDicts(values) == {EmptyDict} \cup { (1 :> v) : v \in values }
\* The maps of files, in every insertion order.
OrderedMaps(values) ==
    UNION { UNION { { Items(d, o) : o \in Orders(S) } : d \in [S -> FileDicts(values)] }
            : S \in SUBSET Files }

FunctionsOf(k) ==
    IF k = "line" THEN {"line_increment", "line_diff"}
    ELSE {"branch_increment", "branch_diff"}

InitOrder ==
    /\ kind \in {"line", "branch"}
    /\ first \in OrderedMaps(IF kind = "line" THEN LineValues ELSE BranchValues)
    /\ second \in OrderedMaps(IF kind = "line" THEN LineValues ELSE BranchValues)
    /\ op = "none"
    /\ result = << >>
    /\ WindowIdle
    /\ ParserIdle
    /\ RenderIdle
    /\ HeapIdle
    /\ ReproIdle

\* One call of an increment or diff function.
CallOnItems ==
    /\ op = "none"
    /\ \E fn \in FunctionsOf(kind) :
         /\ result' = CallInOrder(fn, first, second)
         /\ op' = fn
    /\ UNCHANGED <<kind, first, second>>
    /\ UNCHANGED <<windowVars, parserVars, renderVars, heapVars, reproVars>>

\* The same function called again on the same two mappings, built in
\* another insertion order.
CallOnReinserted ==
    /\ op # "none"
    /\ \E o1 \in Orders(Keys(first)), o2 \in Orders(Keys(second)) :
         /\ first' = Items(AsDict(first), o1)
         /\ second' = Items(AsDict(second), o2)
         /\ result' = CallInOrder(op, first', second')
    /\ UNCHANGED <<kind, op>>
    /\ UNCHANGED <<windowVars, parserVars, renderVars, heapVars, reproVars>>

NextOrder == CallOnItems \/ CallOnReinserted

SpecOrder == InitOrder /\ [][NextOrder]_vars

\* ------------------------------------------------ readers of the maps
\* calculator.py:50-72, differ.py:122-154, workflow/runner.py:304-318.
\* Every dict is the sequence of its (key, value) items in insertion order;
\* an emitted text line is a record of the values formatted into it.

\* sorted(keys) of a set of line numbers
RECURSIVE SortedNumbers(_)
SortedNumbers(numbers) ==
    IF numbers = {} THEN << >>
    ELSE LET least == CHOOSE n \in numbers : \A m \in numbers : n <= m
         IN  <<least>> \o SortedNumbers(numbers \ {least})

\* d.keys(), in the order a for loop over d or d.items() visits them
KeysInInsertionOrder(items) == [ i \in DOMAIN items |-> items[i][1] ]

\* d[key]
ItemValue(items, key) ==
    items[CHOOSE i \in DOMAIN items : items[i][1] = key][2]

\* The text lines of the line numbers order of a file's dict line_items.
LineTexts(line_items, order) ==
    [ i \in DOMAIN order |->
        [ text |-> "line", line_num |-> order[i],
          count |-> ItemValue(line_items, order[i]) ] ]

\* calculator.py:64-70: the loop over sorted(increment_data.keys()), from i
RECURSIVE IncrementFormatLoop(_, _, _)
IncrementFormatLoop(increment_data, files, i) ==
    IF i > Len(files) THEN << >>
    ELSE LET file_data == ItemValue(increment_data, files[i])
         IN  << [ text |-> "file", file |-> files[i] ] >>
             \o LineTexts(file_data, SortedNumbers(Keys(file_data)))
             \o << [ text |-> "end" ] >>
             \o IncrementFormatLoop(increment_data, files, i + 1)

format_line_coverage_increment_data(increment_data) ==
    IncrementFormatLoop(increment_data, SortedPaths(Keys(increment_data)), 1)

\* differ.py:142-145 / 148-151: one side of a file's diff
FormatDiffSide(side, line_items) ==
    IF line_items # << >>
    THEN << [ text |-> side ] >>
         \o LineTexts(line_items, SortedNumbers(Keys(line_items)))
    ELSE << >>

\* differ.py:137-152: the loop over sorted(line_diff_result.keys()), from i
RECURSIVE DiffFormatLoop(_, _, _)
DiffFormatLoop(line_diff_result, files, i) ==
    IF i > Len(files) THEN << >>
    ELSE LET line_diff == ItemValue(line_diff_result, files[i])
         IN  << [ text |-> "file", file |-> files[i] ] >>
             \o FormatDiffSide("only_in_first", line_diff.only_in_first)
             \o FormatDiffSide("only_in_second", line_diff.only_in_second)
             \o << [ text |-> "end" ] >>
             \o DiffFormatLoop(line_diff_result, files, i + 1)

format_line_diff_result(line_diff_result) ==
    IF line_diff_result # << >>
    THEN << [ text |-> "header" ] >>
         \o DiffFormatLoop(line_diff_result,
                           SortedPaths(Keys(line_diff_result)), 1)
    ELSE << >>

\* runner.py:310-313 / 314-317: one side of a file's diff, "for line_num,
\* count in diff.only_in_first.items()"
WriteDiffSide(side, line_items) ==
    IF line_items # << >>
    THEN << [ text |-> side ] >>
         \o LineTexts(line_items, KeysInInsertionOrder(line_items))
    ELSE << >>

\* runner.py:308-318: the loop over line_coverage_diff.items(), from i
RECURSIVE PairReportLoop(_, _)
PairReportLoop(line_coverage_diff, i) ==
    IF i > Len(line_coverage_diff) THEN << >>
    ELSE LET file_path == line_coverage_diff[i][1]
             diff == line_coverage_diff[i][2]
         IN  << [ text |-> "file", file |-> file_path ] >>
             \o WriteDiffSide("only_in_first", diff.only_in_first)
             \o WriteDiffSide("only_in_second", diff.only_in_second)
             \o << [ text |-> "end" ] >>
             \o PairReportLoop(line_coverage_diff, i + 1)

\* runner.py:305-318: the line-coverage part of _generate_pair_report
generate_pair_report(line_coverage_diff) ==
    IF line_coverage_diff # << >>
    THEN << [ text |-> "header" ] >> \o PairReportLoop(line_coverage_diff, 1)
    ELSE << >>

\* The dicts of one file with line numbers in 1..MaxRenderLine, in every
\* insertion order.
RenderLines == 1..MaxRenderLine
LineItems ==
    UNION { UNION { { Items(d, o) : o \in Orders(S) } : d \in [S -> 1..MaxCount] }
            : S \in SUBSET RenderLines }
\* The diff objects compare_line_diff stores: the two sides share no line
\* and are not both empty.
LineDiffs ==
    { d \in [ only_in_first : LineItems, only_in_second : LineItems ] :
        /\ Keys(d.only_in_first) \cap Keys(d.only_in_second) = {}
        /\ d.only_in_first # << >> \/ d.only_in_second # << >> }

InitRender ==
    /\ reader = "none"
    /\ \/ /\ render_kind = "increment"
          /\ \/ \E line_items \in LineItems \ {<< >>} :
                  render_input = << <<"a.java", line_items>> >>
             \/ render_input = << >>
       \/ /\ render_kind = "diff"
          /\ \/ \E line_diff \in LineDiffs :
                  render_input = << <<"a.java", line_diff>> >>
             \/ render_input = << >>
    /\ formatted_lines = << >>
    /\ DeltaIdle
    /\ WindowIdle
    /\ ParserIdle
    /\ HeapIdle
    /\ ReproIdle

FormatLineIncrement ==
    /\ reader = "none"
    /\ render_kind = "increment"
    /\ formatted_lines' = format_line_coverage_increment_data(render_input)
    /\ reader' = "format_line_coverage_increment_data"
    /\ UNCHANGED <<render_kind, render_input>>
    /\ UNCHANGED <<deltaVars, windowVars, parserVars, heapVars, reproVars>>

FormatLineDiff ==
    /\ reader = "none"
    /\ render_kind = "diff"
    /\ formatted_lines' = format_line_diff_result(render_input)
    /\ reader' = "format_line_diff_result"
    /\ UNCHANGED <<render_kind, render_input>>
    /\ UNCHANGED <<deltaVars, windowVars, parserVars, heapVars, reproVars>>

GeneratePairReport ==
    /\ reader = "none"
    /\ render_kind = "diff"
    /\ formatted_lines' = generate_pair_report(render_input)
    /\ reader' = "_generate_pair_report"
    /\ UNCHANGED <<render_kind, render_input>>
    /\ UNCHANGED <<deltaVars, windowVars, parserVars, heapVars, reproVars>>

NextRender == FormatLineIncrement \/ FormatLineDiff \/ GeneratePairReport

SpecRender == InitRender /\ [][NextRender]_vars

\* ------------------------------------------------- objects of a call
\* heap[ref] is the contents of the object with reference ref: of a map of
\* files, the reference of each file's dict; of a file's dict, the value of
\* each line; of a LineCoverageDiff, the references of its two dicts.

\* The heap after the dicts of the files paths[i..] of map d were created,
\* and the contents of the dict of files that holds their references.
RECURSIVE StoreFileDicts(_, _, _, _, _)
StoreFileDicts(h, d, paths, i, outer) ==
    IF i > Len(paths) THEN [ heap |-> h, outer |-> outer ]
    ELSE StoreFileDicts(Append(h, d[paths[i]]), d, paths, i + 1,
                        Put(outer, paths[i], Len(h) + 1))

\* The heap after map d was built; the new map has reference Len of it.
StoreMap(h, d) ==
    LET files == StoreFileDicts(h, d, SortedPaths(DOMAIN d), 1, EmptyDict)
    IN  Append(files.heap, files.outer)

\* coverage.get(file_path, {}): the contents of the file's dict
FileDictOf(h, map_ref, file_path) ==
    IF file_path \in DOMAIN h[map_ref] THEN h[h[map_ref][file_path]] ELSE EmptyDict

\* Variant of ResultDictRef: when every line of the file qualifies, the
\* file's dict of current_coverage itself is stored in the result.
ResultDictRef_SharedWhenEqual(fresh_ref, h, current_ref, file_path) ==
    IF /\ file_path \in DOMAIN h[current_ref]
       /\ h[fresh_ref] = h[h[current_ref][file_path]]
    THEN h[current_ref][file_path]
    ELSE fresh_ref

\* calculator.py:34, 45: the dict stored for the file is the one created at
\* line 34
ResultDictRef(fresh_ref, h, current_ref, file_path) == fresh_ref

\* calculator.py:29-45 on the heap: the loop over sorted(all_file_paths)
RECURSIVE IncrementOnHeap(_, _, _, _, _, _)
IncrementOnHeap(h, paths, i, baseline_ref, current_ref, incremental) ==
    IF i > Len(paths) THEN Append(h, incremental)
    ELSE LET file_path == paths[i]
             added == AddedOrImprovedLines(FileDictOf(h, baseline_ref, file_path),
                                           FileDictOf(h, current_ref, file_path))
             h2 == Append(h, added)
             stored == ResultDictRef(Len(h2), h2, current_ref, file_path)
         IN  IncrementOnHeap(h2, paths, i + 1, baseline_ref, current_ref,
                 IF Truthy(added) THEN Put(incremental, file_path, stored)
                 ELSE incremental)

\* differ.py:75-84 with 25-30 on the heap: two dict comprehensions and one
\* LineCoverageDiff per file
RECURSIVE DiffOnHeap(_, _, _, _, _, _)
DiffOnHeap(h, paths, i, a_ref, b_ref, diff_result) ==
    IF i > Len(paths) THEN Append(h, diff_result)
    ELSE LET file == paths[i]
             file_diff == compare_line_diff_for_file(FileDictOf(h, a_ref, file),
                                                     FileDictOf(h, b_ref, file))
             h2 == Append(Append(h, file_diff.only_in_first),
                          file_diff.only_in_second)
             h3 == Append(h2, [ only_in_first |-> Len(h) + 1,
                                only_in_second |-> Len(h) + 2 ])
         IN  DiffOnHeap(h3, paths, i + 1, a_ref, b_ref,
                 IF HasDiff(file_diff) THEN Put(diff_result, file, Len(h3))
                 ELSE diff_result)

\* The heap after fn(a_ref, b_ref) returned; the result has reference Len
\* of it.
CallOnHeap(fn, h, a_ref, b_ref) ==
    LET paths == SortedPaths(DOMAIN h[a_ref] \cup DOMAIN h[b_ref])
    IN  IF fn = "line_increment"
        THEN IncrementOnHeap(h, paths, 1, a_ref, b_ref, EmptyDict)
        ELSE DiffOnHeap(h, paths, 1, a_ref, b_ref, EmptyDict)

\* The dicts of lines a caller reaches from the arguments / from the result.
InputDicts ==
    { heap[first_ref][f] : f \in DOMAIN heap[first_ref] }
    \cup { heap[second_ref][f] : f \in DOMAIN heap[second_ref] }
ResultDicts ==
    IF heap_fn = "line_increment"
    THEN { heap[result_ref][f] : f \in DOMAIN heap[result_ref] }
    ELSE { heap[heap[result_ref][f]].only_in_first : f \in DOMAIN heap[result_ref] }
         \cup { heap[heap[result_ref][f]].only_in_second : f \in DOMAIN heap[result_ref] }

InitHeap ==
    /\ \E sh \in InputShapes(MaxHeapEntries) : \E f \in [sh[1] -> LineValues] :
         LET h1 == StoreMap(<< >>, BuildMap("first", sh[1], sh[2], f))
             h2 == StoreMap(h1, BuildMap("second", sh[1], sh[2], f))
         IN  /\ heap = h2
             /\ first_ref = Len(h1)
             /\ second_ref = Len(h2)
    /\ result_ref = 0
    /\ heap_fn = "none"
    /\ hpc = "ready"
    /\ DeltaIdle
    /\ WindowIdle
    /\ ParserIdle
    /\ RenderIdle
    /\ ReproIdle

CallWithObjects ==
    /\ hpc = "ready"
    /\ \E fn \in {"line_increment", "line_diff"} :
         /\ heap' = CallOnHeap(fn, heap, first_ref, second_ref)
         /\ heap_fn' = fn
    /\ result_ref' = Len(heap')
    /\ hpc' = "returned"
    /\ UNCHANGED <<first_ref, second_ref>>
    /\ UNCHANGED <<deltaVars, windowVars, parserVars, renderVars, reproVars>>

\* The caller's "d[line] = MaxCount + 1" on the dict with reference ref.
ChangeDict(ref, line) ==
    heap' = [ heap EXCEPT ![ref] = Put(@, line, MaxCount + 1) ]

\* After the call, the caller changes a dict of lines of the result.
ChangeReturnedMap ==
    /\ hpc = "returned"
    /\ \E ref \in ResultDicts : \E line \in Lines : ChangeDict(ref, line)
    /\ hpc' = "result_changed"
    /\ UNCHANGED <<first_ref, second_ref, result_ref, heap_fn>>
    /\ UNCHANGED <<deltaVars, windowVars, parserVars, renderVars, reproVars>>

\* After the call, the caller changes a dict of lines of an argument.
ChangeInputMap ==
    /\ hpc = "returned"
    /\ \E ref \in InputDicts : \E line \in Lines : ChangeDict(ref, line)
    /\ hpc' = "input_changed"
    /\ UNCHANGED <<first_ref, second_ref, result_ref, heap_fn>>
    /\ UNCHANGED <<deltaVars, windowVars, parserVars, renderVars, reproVars>>

NextHeap == CallWithObjects \/ ChangeReturnedMap \/ ChangeInputMap

SpecHeap == InitHeap /\ [][NextHeap]_vars

\* ------------------------------------------------ utils/reproducer.py
\* A callback either returns or raises an Exception with a message.
Returns == [ raises |-> FALSE, message |-> "None" ]
Raises(message) == [ raises |-> TRUE, message |-> message ]
CallbackBehaviours == {Returns} \cup { Raises(m) : m \in {"assertion failed", "timeout"} }

\* How one call of collect_coverage_data ends: it returns, ec_file_generator
\* raises (reproducer.py:330), adb.pull_file raises AdbError (334), or
\* convert_ec_to_xml raises FileNotFoundError (337).
CollectionBehaviours == {"ok", "RuntimeError", "AdbError", "FileNotFoundError"}

\* reproducer.py:237-245 / 268-275: try: callback() except Exception as e
RunCallback(callback) ==
    IF callback.raises
    THEN [ status |-> "ERROR", error_message |-> callback.message ]
    ELSE [ status |-> "SUCCESS", error_message |-> "None" ]

\* Variant of collect_coverage_data: "except AdbError" returns None instead
\* of raising.
collect_coverage_data_AdbErrorSwallowed(behaviour, out_dir, test_case_name) ==
    IF behaviour \in {"ok", "AdbError"}
    THEN [ status |-> "returned",
           value |-> IF behaviour = "ok"
                     THEN [ xml_path |-> out_dir \o "/" \o test_case_name \o ".xml" ]
                     ELSE [ xml_path |-> "None" ] ]
    ELSE [ status |-> "raised", error |-> behaviour ]

\* reproducer.py:299-351: returns the CoverageData or raises; the except
\* clause re-raises AdbError, every other exception leaves the try as it is
collect_coverage_data(behaviour, out_dir, test_case_name) ==
    IF behaviour = "ok"
    THEN [ status |-> "returned",
           value |-> [ xml_path |-> out_dir \o "/" \o test_case_name \o ".xml" ] ]
    ELSE [ status |-> "raised", error |-> behaviour ]

\* reproducer.py:260-265 / 290-295: the TestResult of a phase
TestResult(status, error_message) ==
    [ status |-> status,
      error_message |-> IF status = "ERROR" THEN error_message ELSE "None" ]

\* reproducer.py:43: the TestData add_test_case stores
NewTestData ==
    [ precondition_result |-> "None", property_result |-> "None",
      precondition_coverage_data |-> "None", property_coverage_data |-> "None" ]

InitRepro ==
    /\ test_case \in [ name : {"bug_case", "correct_case"},
                       preconditions : CallbackBehaviours,
                       property : CallbackBehaviours ]
    /\ output_dir = "out"
    /\ collections \in [ 1..2 -> CollectionBehaviours ]
    /\ rpc = "preconditions"
    /\ calls = << >>
    /\ precondition_status = "SUCCESS"
    /\ precondition_error_message = "None"
    /\ property_status = "SUCCESS"
    /\ property_error_message = "None"
    /\ test_data = NewTestData
    /\ propagated = "None"
    /\ DeltaIdle
    /\ WindowIdle
    /\ ParserIdle
    /\ RenderIdle
    /\ HeapIdle

reproInputs == <<test_case, output_dir, collections>>

\* reproducer.py:237-245
CallPreconditions ==
    /\ rpc = "preconditions"
    /\ calls' = Append(calls, "preconditions")
    /\ LET ran == RunCallback(test_case.preconditions)
       IN  /\ precondition_status' = ran.status
           /\ precondition_error_message' = ran.error_message
    /\ rpc' = "precondition_finally"
    /\ UNCHANGED <<reproInputs, property_status, property_error_message,
                   test_data, propagated>>
    /\ UNCHANGED <<deltaVars, windowVars, parserVars, renderVars, heapVars>>

\* reproducer.py:246-266
CollectPreconditionCoverage ==
    /\ rpc = "precondition_finally"
    /\ calls' = Append(calls, "collect_precondition")
    /\ LET collected ==
               collect_coverage_data(collections[1],
                   output_dir \o "/" \o test_case.name \o "_precondition",
                   test_case.name)
       IN  IF collected.status = "raised"
           THEN /\ propagated' = collected.error
                /\ rpc' = "raised"
                /\ UNCHANGED test_data
           ELSE /\ test_data' =
                       [ test_data EXCEPT
                           !.precondition_coverage_data = collected.value,
                           !.precondition_result =
                               TestResult(precondition_status,
                                          precondition_error_message) ]
                /\ rpc' = "property"
                /\ UNCHANGED propagated
    /\ UNCHANGED <<reproInputs, precondition_status, precondition_error_message,
                   property_status, property_error_message>>
    /\ UNCHANGED <<deltaVars, windowVars, parserVars, renderVars, heapVars>>

\* reproducer.py:268-275
CallProperty ==
    /\ rpc = "property"
    /\ calls' = Append(calls, "property")
    /\ LET ran == RunCallback(test_case.property)
       IN  /\ property_status' = ran.status
           /\ property_error_message' = ran.error_message
    /\ rpc' = "property_finally"
    /\ UNCHANGED <<reproInputs, precondition_status, precondition_error_message,
                   test_data, propagated>>
    /\ UNCHANGED <<deltaVars, windowVars, parserVars, renderVars, heapVars>>

\* reproducer.py:276-296
CollectPropertyCoverage ==
    /\ rpc = "property_finally"
    /\ calls' = Append(calls, "collect_property")
    /\ LET collected ==
               collect_coverage_data(collections[2],
                   output_dir \o "/" \o test_case.name \o "_property",
                   test_case.name)
       IN  IF collected.status = "raised"
           THEN /\ propagated' = collected.error
                /\ rpc' = "raised"
                /\ UNCHANGED test_data
           ELSE /\ test_data' =
                       [ test_data EXCEPT
                           !.property_coverage_data = collected.value,
                           !.property_result =
                               TestResult(property_status, property_error_message) ]
                /\ rpc' = "returned"
                /\ UNCHANGED propagated
    /\ UNCHANGED <<reproInputs, precondition_status, precondition_error_message,
                   property_status, property_error_message>>
    /\ UNCHANGED <<deltaVars, windowVars, parserVars, renderVars, heapVars>>

NextRepro ==
    \/ CallPreconditions
    \/ CollectPreconditionCoverage
    \/ CallProperty
    \/ CollectPropertyCoverage

SpecRepro == InitRepro /\ [][NextRepro]_vars

\* ------------------------------------------------------------- claims
\* Reading a map from outside the code under check.
LinesOf(d, f) == IF f \in DOMAIN d THEN DOMAIN d[f] ELSE {}
InResult(f, l) == f \in DOMAIN result /\ l \in DOMAIN result[f]
IsIncrement == op \in {"line_increment", "branch_increment"}
IsDiff == op \in {"line_diff", "branch_diff"}
InBoth(f, l) == l \in LinesOf(first, f) /\ l \in LinesOf(second, f)

\* C1: the line increment holds line l of file f iff l is a key of
\* current[f] and either l is no key of baseline[f] (a missing file is an
\* empty map) or baseline[f][l] = 0 and current[f][l] > 0; the value kept is
\* current[f][l].
C1_LineIncrementIff ==
    op = "line_increment" =>
        \A f \in Files, l \in Lines :
            /\ InResult(f, l) <=>
                   /\ l \in LinesOf(second, f)
                   /\ \/ l \notin LinesOf(first, f)
                      \/ first[f][l] = 0 /\ second[f][l] > 0
            /\ InResult(f, l) => result[f][l] = second[f][l]

\* A line that went from 0 hits in baseline to > 0 in current is in the result.
C1_Witness ==
    /\ op = "line_increment"
    /\ \E f \in Files, l \in Lines :
           /\ InBoth(f, l)
           /\ first[f][l] = 0
           /\ second[f][l] > 0
           /\ InResult(f, l)
           /\ result[f][l] = second[f][l]

\* C2: a line in both maps whose baseline count is > 0 is never in the line
\* increment, whatever current's count is.
C2_CoveredBaselineExcluded ==
    op = "line_increment" =>
        \A f \in Files, l \in Lines :
            (InBoth(f, l) /\ first[f][l] > 0) => ~InResult(f, l)

\* Current's count is higher than baseline's positive count.
C2_Witness ==
    /\ op = "line_increment"
    /\ \E f \in Files, l \in Lines :
           /\ InBoth(f, l)
           /\ first[f][l] > 0
           /\ second[f][l] > first[f][l]
           /\ ~InResult(f, l)

\* current is baseline plus additions only: every file and every line entry
\* of baseline is in current with the same hit count.
AdditionsOnly ==
    \A f \in DOMAIN first :
        /\ f \in DOMAIN second
        /\ \A l \in DOMAIN first[f] :
               l \in DOMAIN second[f] /\ second[f][l] = first[f][l]

\* The entries of current whose key is not in baseline, as a map.
AddedEntries ==
    [ f \in { g \in DOMAIN second : DOMAIN second[g] \ LinesOf(first, g) # {} }
        |-> [ l \in DOMAIN second[f] \ LinesOf(first, f) |-> second[f][l] ] ]

\* C3: when current is baseline plus additions only, the line increment is
\* exactly the added entries, each with current's hit count.
C3_AdditionsOnlyGivesAdded ==
    (op = "line_increment" /\ AdditionsOnly) => result = AddedEntries

\* Baseline has an entry with 0 hits, current repeats it and adds a line.
C3_Witness ==
    /\ op = "line_increment"
    /\ AdditionsOnly
    /\ \E f \in DOMAIN first : \E l \in DOMAIN first[f] : first[f][l] = 0
    /\ \E f \in DOMAIN second : DOMAIN second[f] # LinesOf(first, f)
    /\ result # EmptyDict
    /\ result = AddedEntries

\* C4: the branch increment holds line l of file f, with current's pair, iff
\* l is in current[f] and (a) l is not in baseline[f], or (b) the totals are
\* equal and current's covered count is higher, or (c) current's total is
\* higher and current's covered count is > 0.
C4_BranchIncrementIff ==
    op = "branch_increment" =>
        \A f \in Files, l \in Lines :
            /\ InResult(f, l) <=>
                   /\ l \in LinesOf(second, f)
                   /\ \/ l \notin LinesOf(first, f)
                      \/ /\ first[f][l][2] = second[f][l][2]
                         /\ second[f][l][1] > first[f][l][1]
                      \/ /\ second[f][l][2] > first[f][l][2]
                         /\ second[f][l][1] > 0
            /\ InResult(f, l) => result[f][l] = second[f][l]

\* A line of both maps whose total went up with covered = 0 is left out.
C4_Witness ==
    /\ op = "branch_increment"
    /\ \E f \in Files, l \in Lines :
           /\ InBoth(f, l)
           /\ second[f][l][2] > first[f][l][2]
           /\ second[f][l][1] = 0
           /\ ~InResult(f, l)

\* C5: a line of both maps whose total branch count is lower in current than
\* in baseline is never in the branch increment.
C5_TotalDecreaseExcluded ==
    op = "branch_increment" =>
        \A f \in Files, l \in Lines :
            (InBoth(f, l) /\ second[f][l][2] < first[f][l][2]) => ~InResult(f, l)

\* The total went down while the covered count went up.
C5_Witness ==
    /\ op = "branch_increment"
    /\ \E f \in Files, l \in Lines :
           /\ InBoth(f, l)
           /\ second[f][l][2] < first[f][l][2]
           /\ second[f][l][1] > first[f][l][1]
           /\ ~InResult(f, l)

\* C6: in the result of either increment function every file key maps to a
\* non-empty line map; a file present only in baseline is absent.
C6_NoEmptyFileInIncrement ==
    IsIncrement =>
        /\ \A f \in DOMAIN result : DOMAIN result[f] # {}
        /\ \A f \in DOMAIN first : f \notin DOMAIN second => f \notin DOMAIN result

\* A file of current without a qualifying line is dropped while another
\* file is kept.
C6_Witness ==
    /\ IsIncrement
    /\ \E f \in DOMAIN second : f \notin DOMAIN result
    /\ result # EmptyDict

\* C7: with an empty baseline and a current map whose files all have a
\* non-empty line map, either increment function returns current.
C7_EmptyBaselineGivesCurrent ==
    ( /\ IsIncrement
      /\ first = EmptyDict
      /\ \A f \in DOMAIN second : DOMAIN second[f] # {} )
    => result = second

\* Baseline {} and a current map with an entry in each of two files.
C7_Witness ==
    /\ op = "line_increment"
    /\ first = EmptyDict
    /\ DOMAIN second = Files
    /\ \A f \in DOMAIN second : DOMAIN second[f] # {}
    /\ result = second

\* The diff object of file f, empty on both sides when f is no key of the
\* result.
DiffOf(f) ==
    IF f \in DOMAIN result THEN result[f]
    ELSE [ only_in_first |-> EmptyDict, only_in_second |-> EmptyDict ]

\* C8: for every file, only_in_first is the entries of first[f] whose line
\* is no key of second[f], only_in_second the entries of second[f] whose
\* line is no key of first[f], each with its own side's value; a line on
\* both sides is in neither.
C8_DiffIsKeyDifference ==
    IsDiff =>
        \A f \in Files, l \in Lines :
            /\ l \in DOMAIN DiffOf(f).only_in_first <=>
                   (l \in LinesOf(first, f) /\ l \notin LinesOf(second, f))
            /\ l \in DOMAIN DiffOf(f).only_in_second <=>
                   (l \in LinesOf(second, f) /\ l \notin LinesOf(first, f))
            /\ l \in DOMAIN DiffOf(f).only_in_first =>
                   DiffOf(f).only_in_first[l] = first[f][l]
            /\ l \in DOMAIN DiffOf(f).only_in_second =>
                   DiffOf(f).only_in_second[l] = second[f][l]

\* A file with a line on both sides with different values and a line on
\* one side only.
C8_Witness ==
    /\ IsDiff
    /\ \E f \in DOMAIN result, l \in Lines :
           /\ InBoth(f, l)
           /\ first[f][l] # second[f][l]
           /\ l \notin DOMAIN result[f].only_in_first
           /\ l \notin DOMAIN result[f].only_in_second

\* C9: in every diff object the key sets of only_in_first and
\* only_in_second are disjoint.
C9_DiffSidesDisjoint ==
    IsDiff =>
        \A f \in DOMAIN result :
            (DOMAIN result[f].only_in_first) \cap (DOMAIN result[f].only_in_second) = {}

\* A diff object with both sides non-empty.
C9_Witness ==
    /\ IsDiff
    /\ \E f \in DOMAIN result :
           /\ DOMAIN result[f].only_in_first # {}
           /\ DOMAIN result[f].only_in_second # {}

\* C10: a file is a key of the diff result iff one of its two mappings is
\* non-empty, that is iff its line key sets differ between the two sides.
C10_DiffFileIffDifference ==
    IsDiff =>
        \A f \in Files :
            /\ f \in DOMAIN result <=> LinesOf(first, f) # LinesOf(second, f)
            /\ f \in DOMAIN result =>
                   \/ DOMAIN result[f].only_in_first # {}
                   \/ DOMAIN result[f].only_in_second # {}

\* A file with the same lines but other values on both sides is absent,
\* while a file with lines on the second side only is kept.
C10_Witness ==
    /\ IsDiff
    /\ \E f \in (DOMAIN first) \cap (DOMAIN second) :
           /\ DOMAIN first[f] = DOMAIN second[f]
           /\ first[f] # second[f]
           /\ f \notin DOMAIN result
    /\ \E g \in DOMAIN result :
           /\ DOMAIN result[g].only_in_first = {}
           /\ DOMAIN result[g].only_in_second # {}

\* C11: diffing a map against itself gives the empty mapping, for the line
\* and the branch differ; in particular compare_line_diff({}, {}) = {}.
C11_SelfDiffIsEmpty ==
    (IsDiff /\ first = second) => result = EmptyDict

\* A map with entries in two files was diffed against itself.
C11_Witness ==
    /\ IsDiff
    /\ first = second
    /\ DOMAIN first = Files
    /\ \A f \in DOMAIN first : DOMAIN first[f] # {}
    /\ result = EmptyDict

\* Reading the windower's state from outside the code under check.
Returned == wpc = "returned"
IsSeparator(entry) == entry[2] = TRUE
WindowLines(w) == w[1]..w[2]
WindowSize(w) == IF w[2] >= w[1] THEN w[2] - w[1] + 1 ELSE 0
CoveredBy(ranges) == UNION { WindowLines(ranges[i]) : i \in DOMAIN ranges }
\* The highest end among the first i candidate windows.
RunningEnd(i) ==
    CHOOSE e \in { extended_ranges[j][2] : j \in 1..i } :
        \A j \in 1..i : extended_ranges[j][2] <= e
\* The candidate windows that start a new merged window.
Breaks ==
    { i \in 2..Len(extended_ranges) : extended_ranges[i][1] > RunningEnd(i - 1) + 1 }
SeparatorCount == Cardinality({ p \in DOMAIN result_lines : IsSeparator(result_lines[p]) })

\* C12: candidate windows are merged exactly when the next start is <= the
\* current merged end + 1, the merged end being the larger end: a merged
\* window starts at the first candidate and at every candidate whose start
\* is > the running end + 1, consecutive merged windows satisfy
\* next.start > previous.end + 1, and the merged windows cover the lines
\* the candidate windows cover; lines {10, 12}, context 1, 20 lines give the
\* one window 9..13 and no separator.
C12_MergeRule ==
    Returned =>
        /\ line_numbers # {} => Len(merged_ranges) = 1 + Cardinality(Breaks)
        /\ \A i \in 1..(Len(merged_ranges) - 1) :
               merged_ranges[i + 1][1] > merged_ranges[i][2] + 1
        /\ \A i \in DOMAIN merged_ranges :
               \E j \in DOMAIN extended_ranges, k \in DOMAIN extended_ranges :
                   /\ merged_ranges[i][1] = extended_ranges[j][1]
                   /\ merged_ranges[i][2] = extended_ranges[k][2]
        /\ CoveredBy(merged_ranges) = CoveredBy(extended_ranges)
        /\ (line_numbers = {10, 12} /\ max_lines = 20 /\ context_lines = 1) =>
               /\ merged_ranges = << <<9, 13>> >>
               /\ SeparatorCount = 0

\* Three candidate windows of which two were merged (adjacent, not
\* overlapping) and one was kept apart.
C12_Witness ==
    /\ Returned
    /\ Len(extended_ranges) = 3
    /\ Len(merged_ranges) = 2
    /\ \E i \in 1..2 : extended_ranges[i + 1][1] = extended_ranges[i][2] + 1
    /\ \A i \in DOMAIN merged_ranges : WindowSize(merged_ranges[i]) > 0

\* C13: for every set of positive line numbers, every file length >= 0 and
\* every context >= 0 (the lines need not be <= the file length) the
\* returned list does not start with a separator, does not end with one and
\* has no two separators in a row.
\* Stated here for files of at least one line, where it fails as well as
\* for the empty file.
C13_SeparatorsOnlyBetween ==
    (Returned /\ result_lines # << >> /\ max_lines >= 1) =>
        /\ ~IsSeparator(result_lines[1])
        /\ ~IsSeparator(result_lines[Len(result_lines)])
        /\ \A p \in 1..(Len(result_lines) - 1) :
               ~(IsSeparator(result_lines[p]) /\ IsSeparator(result_lines[p + 1]))

\* The sum of the sizes of the first i merged windows.
RECURSIVE SizeOfFirst(_)
SizeOfFirst(i) ==
    IF i = 0 THEN 0 ELSE SizeOfFirst(i - 1) + WindowSize(merged_ranges[i])

\* C14: the returned list holds every line of every merged window, window
\* after window and ascending, one separator after each merged window but
\* the last and none elsewhere, so merged windows - 1 separators; the line
\* numbers are strictly ascending over the whole list; lines {5, 50},
\* context 2, 100 lines give 3..7, a separator, 48..52.
C14_EmitsWindowsAndSeparators ==
    Returned =>
        LET n == Len(merged_ranges)
        IN  /\ Len(result_lines) = SizeOfFirst(n) + (IF n = 0 THEN 0 ELSE n - 1)
            /\ \A i \in 1..n : \A k \in 1..WindowSize(merged_ranges[i]) :
                   result_lines[SizeOfFirst(i - 1) + (i - 1) + k]
                       = <<merged_ranges[i][1] + k - 1, FALSE>>
            /\ \A i \in 1..(n - 1) : result_lines[SizeOfFirst(i) + i] = <<-1, TRUE>>
            /\ SeparatorCount = (IF n = 0 THEN 0 ELSE n - 1)
            /\ \A p \in DOMAIN result_lines, q \in DOMAIN result_lines :
                   ( /\ p < q
                     /\ ~IsSeparator(result_lines[p])
                     /\ ~IsSeparator(result_lines[q]) )
                   => result_lines[p][1] < result_lines[q][1]
            /\ (line_numbers = {5, 50} /\ max_lines = 100 /\ context_lines = 2) =>
                   result_lines =
                       [ k \in 1..5 |-> <<2 + k, FALSE>> ] \o << <<-1, TRUE>> >>
                       \o [ k \in 1..5 |-> <<47 + k, FALSE>> ]

\* Three merged windows with lines in each, two separators between them.
C14_Witness ==
    /\ Returned
    /\ Len(merged_ranges) = 3
    /\ \A i \in DOMAIN merged_ranges : WindowSize(merged_ranges[i]) > 0
    /\ SeparatorCount = 2

\* The position of line number x among the sorted line numbers.
RankOf(x) == Cardinality({ y \in line_numbers : y <= x })

\* C15: the candidate window of line L is
\* [max(1, L - context), min(max_lines, L + context)], and every line entry
\* returned has a line number in 1..max_lines; lines {1}, context 5,
\* 10 lines give exactly 1..6.
C15_WindowsClampedToFile ==
    Returned =>
        /\ Len(extended_ranges) = Cardinality(line_numbers)
        /\ \A x \in line_numbers :
               /\ extended_ranges[RankOf(x)][1] =
                      (IF x - context_lines < 1 THEN 1 ELSE x - context_lines)
               /\ extended_ranges[RankOf(x)][2] =
                      (IF x + context_lines > max_lines THEN max_lines
                       ELSE x + context_lines)
        /\ \A p \in DOMAIN result_lines :
               ~IsSeparator(result_lines[p]) => result_lines[p][1] \in 1..max_lines
        /\ (line_numbers = {1} /\ max_lines = 10 /\ context_lines = 5) =>
               result_lines = [ k \in 1..6 |-> <<k, FALSE>> ]

\* A window clamped at line 1 and a window clamped at the last line of the
\* file, both shown.
C15_Witness ==
    /\ Returned
    /\ \E x \in line_numbers : x - context_lines < 1
    /\ \E x \in line_numbers : x <= max_lines /\ x + context_lines > max_lines
    /\ result_lines # << >>
    /\ result_lines[1] = <<1, FALSE>>
    /\ result_lines[Len(result_lines)] = <<max_lines, FALSE>>

\* C16: an empty set of lines gives the empty list, without line entries and
\* without separators, for every file length and context.
C16_EmptySetGivesEmptyList ==
    (Returned /\ line_numbers = {}) => result_lines = << >>

\* The empty set, for a file with lines and a positive context.
C16_Witness ==
    /\ Returned
    /\ line_numbers = {}
    /\ max_lines > 0
    /\ context_lines > 0
    /\ result_lines = << >>

\* Reading the parser's report and result from outside the code under check.
ParserReturned == outcome.status = "returned"
SourceFile(i) == report.sourcefiles[i]
Named(i) == "name" \in DOMAIN SourceFile(i).attrs
\* The key the claim gives sourcefile element i.
PathOf(i) ==
    IF "name" \in DOMAIN SourceFile(i).package /\ SourceFile(i).package["name"] # ""
    THEN SourceFile(i).package["name"] \o "/" \o SourceFile(i).attrs["name"]
    ELSE SourceFile(i).attrs["name"]
NamedFiles == { i \in DOMAIN report.sourcefiles : Named(i) }
\* The number an attribute of line element j of sourcefile i stands for.
NumberOf(i, j, name) ==
    IF name \in DOMAIN SourceFile(i).lines[j]
    THEN IntText[SourceFile(i).lines[j][name]] ELSE 0
LineElems(i) == DOMAIN SourceFile(i).lines
\* The report names the path in one sourcefile element only, and that
\* element has one line element only of the number of line element j.
OnlyElement(i, j) ==
    /\ \A i2 \in NamedFiles : PathOf(i2) = PathOf(i) => i2 = i
    /\ \A j2 \in LineElems(i) : NumberOf(i, j2, "nr") = NumberOf(i, j, "nr") => j2 = j
Recorded(i, j) ==
    /\ PathOf(i) \in DOMAIN outcome.value
    /\ NumberOf(i, j, "nr") \in DOMAIN outcome.value[PathOf(i)]

\* C17: parse_jacoco_line_coverage records a line of a source file iff its
\* ci is > 0, with ci as the hit count; a line with ci = 0 or without ci is
\* absent; every hit count of the result is > 0 and is the ci of a line
\* element of that file and number. (A line is a line element whose file
\* path and line number occur once in the report.)
C17_LineRecordedIffCovered ==
    (parser_kind = "line" /\ ParserReturned) =>
        /\ \A path \in DOMAIN outcome.value : \A nr \in DOMAIN outcome.value[path] :
               /\ outcome.value[path][nr] > 0
               /\ \E i \in NamedFiles : \E j \in LineElems(i) :
                      /\ PathOf(i) = path
                      /\ NumberOf(i, j, "nr") = nr
                      /\ NumberOf(i, j, "ci") = outcome.value[path][nr]
        /\ \A i \in NamedFiles : \A j \in LineElems(i) :
               OnlyElement(i, j) =>
                   /\ Recorded(i, j) <=> NumberOf(i, j, "ci") > 0
                   /\ Recorded(i, j) =>
                          outcome.value[PathOf(i)][NumberOf(i, j, "nr")]
                              = NumberOf(i, j, "ci")

\* A file with a line of ci = 2, recorded with 2, and a line without ci,
\* not recorded.
C17_Witness ==
    /\ parser_kind = "line"
    /\ ParserReturned
    /\ \E i \in NamedFiles : \E j \in LineElems(i), j2 \in LineElems(i) :
           /\ OnlyElement(i, j)
           /\ OnlyElement(i, j2)
           /\ NumberOf(i, j, "ci") = 2
           /\ Recorded(i, j)
           /\ "ci" \notin DOMAIN SourceFile(i).lines[j2]
           /\ ~Recorded(i, j2)

\* C18: parse_jacoco_branch_coverage records a line iff mb + cb > 0, with
\* the pair (cb, mb + cb); a line with cb = 0 and mb > 0 is kept as
\* (0, total); every recorded pair is that of a line element of that file
\* and number and has total > 0; when no mb and no cb of the report is
\* negative, every recorded pair has 0 <= covered <= total.
C18_BranchRecordedIffTotalPositive ==
    (parser_kind = "branch" /\ ParserReturned) =>
        /\ \A path \in DOMAIN outcome.value : \A nr \in DOMAIN outcome.value[path] :
               /\ outcome.value[path][nr][2] > 0
               /\ \E i \in NamedFiles : \E j \in LineElems(i) :
                      /\ PathOf(i) = path
                      /\ NumberOf(i, j, "nr") = nr
                      /\ outcome.value[path][nr] =
                             <<NumberOf(i, j, "cb"),
                               NumberOf(i, j, "mb") + NumberOf(i, j, "cb")>>
        /\ \A i \in NamedFiles : \A j \in LineElems(i) :
               OnlyElement(i, j) =>
                   /\ Recorded(i, j) <=>
                          NumberOf(i, j, "mb") + NumberOf(i, j, "cb") > 0
                   /\ Recorded(i, j) =>
                          outcome.value[PathOf(i)][NumberOf(i, j, "nr")] =
                              <<NumberOf(i, j, "cb"),
                                NumberOf(i, j, "mb") + NumberOf(i, j, "cb")>>
        /\ (\A i \in NamedFiles : \A j \in LineElems(i) :
                NumberOf(i, j, "mb") >= 0 /\ NumberOf(i, j, "cb") >= 0)
           => \A path \in DOMAIN outcome.value : \A nr \in DOMAIN outcome.value[path] :
                  /\ 0 <= outcome.value[path][nr][1]
                  /\ outcome.value[path][nr][1] <= outcome.value[path][nr][2]
                  /\ outcome.value[path][nr][2] > 0

\* A line with cb = 0 and mb = 1 is recorded as (0, 1).
C18_Witness ==
    /\ parser_kind = "branch"
    /\ ParserReturned
    /\ \E i \in NamedFiles : \E j \in LineElems(i) :
           /\ OnlyElement(i, j)
           /\ NumberOf(i, j, "cb") = 0
           /\ NumberOf(i, j, "mb") = 1
           /\ Recorded(i, j)
           /\ outcome.value[PathOf(i)][NumberOf(i, j, "nr")] = <<0, 1>>

\* Sourcefile element i has a line element the called parser records.
HasRecordedLine(i) ==
    \E j \in LineElems(i) :
        IF parser_kind = "line" THEN NumberOf(i, j, "ci") > 0
        ELSE NumberOf(i, j, "mb") + NumberOf(i, j, "cb") > 0

\* C19: the keys of either parser's result are package + "/" + file name for
\* the named source files of a package with a non-empty name and the bare
\* file name for the others, of the source files with a recorded line only;
\* no key maps to an empty map.
C19_PathKeys ==
    ParserReturned =>
        /\ DOMAIN outcome.value = { PathOf(i) : i \in { k \in NamedFiles : HasRecordedLine(k) } }
        /\ \A path \in DOMAIN outcome.value : DOMAIN outcome.value[path] # {}

\* A file in package p and a file of a package without a name are both
\* keys; a third source file, without a recorded line, adds none.
C19_Witness ==
    /\ ParserReturned
    /\ DOMAIN outcome.value = {"p/A.java", "A.java"}
    /\ \E i \in NamedFiles : "name" \notin DOMAIN SourceFile(i).package

\* The report cannot be parsed: ET.parse rejects the file, or an attribute
\* the parser converts with int() is no integer.
Unparsable ==
    \/ ~report.ok
    \/ \E i \in NamedFiles : \E j \in LineElems(i) :
           \E a \in DOMAIN SourceFile(i).lines[j] :
               SourceFile(i).lines[j][a] \notin DOMAIN IntText

\* C20: when the report cannot be parsed, either parser ends by raising the
\* error and returns no value, whatever it had processed before.
C20_ErrorIsRaised ==
    (outcome.status # "called" /\ parser_kind # "idle" /\ Unparsable) =>
        /\ outcome.status = "raised"
        /\ "value" \notin DOMAIN outcome
        /\ outcome.error = (IF report.ok THEN "ValueError" ELSE "ParseError")

\* The first source file was recorded before a line of the second one
\* failed.
C20_Witness ==
    /\ outcome.status = "raised"
    /\ report.ok
    /\ Len(report.sourcefiles) = 2
    /\ Named(1)
    /\ \E j \in LineElems(1) : "ci" \in DOMAIN SourceFile(1).lines[j]
                               /\ SourceFile(1).lines[j]["ci"] = "1"
    /\ Named(2)
    /\ \E j \in LineElems(2) : "ci" \in DOMAIN SourceFile(2).lines[j]
                               /\ SourceFile(2).lines[j]["ci"] = "x"

\* The files of the result come in lexicographic order of path.
ResultInPathOrder ==
    \A i, j \in DOMAIN result :
        i < j => PathRank(result[i][1]) < PathRank(result[j][1])

\* C21: the increment and diff functions give the files of their result in
\* lexicographic order of path, taken from the union of the file keys of
\* both inputs, whatever the insertion order of the inputs; a second call
\* on inputs that are equal as mappings gives the same result in the same
\* order.
C21_FilesInPathOrder ==
    /\ [](op # "none" =>
            /\ ResultInPathOrder
            /\ Keys(result) \subseteq Keys(first) \cup Keys(second))
    /\ [][(/\ op # "none"
           /\ op' = op
           /\ AsDict(first') = AsDict(first)
           /\ AsDict(second') = AsDict(second)) => result' = result]_vars

\* Both inputs were filled b.java first, and the result lists a.java first.
C21_Witness ==
    /\ op # "none"
    /\ Len(first) = 2 /\ first[1][1] = "b.java"
    /\ Len(second) = 2 /\ second[1][1] = "b.java"
    /\ Len(result) = 2
    /\ result[1][1] = "a.java"
    /\ result[2][1] = "b.java"

\* C22: a baseline line whose total branch count is higher in current is in
\* the branch increment whenever current's covered count is > 0, also when
\* that count is lower than baseline's covered count.
C22_HigherTotalQualifies ==
    op = "branch_increment" =>
        \A f \in DOMAIN first \cap DOMAIN second :
            \A l \in DOMAIN first[f] \cap DOMAIN second[f] :
                (second[f][l][2] > first[f][l][2] /\ second[f][l][1] > 0) =>
                    /\ InResult(f, l)
                    /\ result[f][l] = second[f][l]

\* The line went from 2 of 2 branches covered to 1 of 3 and is in the
\* increment.
C22_Witness ==
    /\ op = "branch_increment"
    /\ first = ("a.java" :> (1 :> <<2, 2>>))
    /\ second = ("a.java" :> (1 :> <<1, 3>>))
    /\ result = ("a.java" :> (1 :> <<1, 3>>))

\* result_lines holds line a directly followed by line b.
ShownInARow(a, b) ==
    \E p \in 1..(Len(result_lines) - 1) :
        /\ result_lines[p] = <<a, FALSE>>
        /\ result_lines[p + 1] = <<b, FALSE>>
\* result_lines holds line a, a separator and line b in a row.
ShownApart(a, b) ==
    \E p \in 2..(Len(result_lines) - 1) :
        /\ result_lines[p - 1] = <<a, FALSE>>
        /\ IsSeparator(result_lines[p])
        /\ result_lines[p + 1] = <<b, FALSE>>

\* C23 as claimed: windows one hidden line apart are merged, so no separator
\* stands between two shown lines that are one hidden line apart.
C23_OneLineGapMerged ==
    Returned =>
        \A p \in 2..(Len(result_lines) - 1) :
            ( /\ IsSeparator(result_lines[p])
              /\ ~IsSeparator(result_lines[p - 1])
              /\ ~IsSeparator(result_lines[p + 1]) )
            => result_lines[p + 1][1] # result_lines[p - 1][1] + 2

\* C23, amended: a candidate window that starts right after the windows
\* before it end (start = end + 1, no hidden line) is merged with them; one
\* that starts one hidden line later (start = end + 2) is kept apart, and a
\* separator stands in for the single hidden line.
C23_OneLineGapKeptApart ==
    Returned =>
        \A j \in 2..Len(extended_ranges) :
            extended_ranges[j][1] <= extended_ranges[j][2] =>
                /\ extended_ranges[j][1] = RunningEnd(j - 1) + 1 =>
                       ShownInARow(RunningEnd(j - 1), extended_ranges[j][1])
                /\ extended_ranges[j][1] = RunningEnd(j - 1) + 2 =>
                       /\ ShownApart(RunningEnd(j - 1), extended_ranges[j][1])
                       /\ \A p \in DOMAIN result_lines :
                              result_lines[p][1] # RunningEnd(j - 1) + 1

\* A window one hidden line after the one before it, kept apart, and a
\* window right after the one before it, merged.
C23_Witness ==
    /\ Returned
    /\ \E j \in 2..Len(extended_ranges) :
           /\ extended_ranges[j][1] <= extended_ranges[j][2]
           /\ extended_ranges[j][1] = RunningEnd(j - 1) + 2
           /\ ShownApart(RunningEnd(j - 1), extended_ranges[j][1])
    /\ \E j \in 2..Len(extended_ranges) :
           /\ extended_ranges[j][1] <= extended_ranges[j][2]
           /\ extended_ranges[j][1] = RunningEnd(j - 1) + 1
           /\ ShownInARow(RunningEnd(j - 1), extended_ranges[j][1])

\* C24: every line-number key of the maps parse_jacoco_line_coverage and
\* parse_jacoco_branch_coverage return is >= 1, for every well-formed
\* report, also one whose line elements lack any of nr, ci, mb, cb.
C24_LineKeysPositive ==
    ParserReturned =>
        \A path \in DOMAIN outcome.value :
            \A nr \in DOMAIN outcome.value[path] : nr >= 1

\* C25: every reader that renders a coverage or diff map to text visits the
\* line keys of a file in ascending numeric order: of two line texts emitted
\* one right after the other, the second has the higher line number.
C25_LinesAscending ==
    reader \notin {"none", "idle"} =>
        \A p \in 1..(Len(formatted_lines) - 1) :
            ( /\ formatted_lines[p].text = "line"
              /\ formatted_lines[p + 1].text = "line" )
            => formatted_lines[p].line_num < formatted_lines[p + 1].line_num

\* The same, of the two formatters alone.
FormattersAscending ==
    reader \in {"format_line_coverage_increment_data", "format_line_diff_result"}
        => C25_LinesAscending

\* The maps a caller reads through the references it holds.
MapAt(map_ref) == [ f \in DOMAIN heap[map_ref] |-> heap[heap[map_ref][f]] ]
FirstMap == MapAt(first_ref)
SecondMap == MapAt(second_ref)
ResultMap ==
    IF heap_fn = "line_increment" THEN MapAt(result_ref)
    ELSE [ f \in DOMAIN heap[result_ref] |->
             [ only_in_first |-> heap[heap[heap[result_ref][f]].only_in_first],
               only_in_second |-> heap[heap[heap[result_ref][f]].only_in_second] ] ]
\* The objects reached from the arguments.
InputObjects == {first_ref, second_ref} \cup InputDicts
\* The objects reached from the result.
ResultObjects ==
    {result_ref} \cup ResultDicts
    \cup (IF heap_fn = "line_increment" THEN {}
          ELSE { heap[result_ref][f] : f \in DOMAIN heap[result_ref] })

\* C26: the increment and diff functions leave both input maps as they
\* were; the objects of their result are new, none is an object of an input;
\* a later change of a returned map leaves both inputs as they were, and a
\* later change of an input leaves the result as it was.
C26_InputsUntouchedResultFresh ==
    /\ [](hpc \in {"returned", "result_changed", "input_changed"} =>
            ResultObjects \cap InputObjects = {})
    /\ [][hpc' \in {"returned", "result_changed"} =>
            (FirstMap' = FirstMap /\ SecondMap' = SecondMap)]_vars
    /\ [][hpc' = "input_changed" => ResultMap' = ResultMap]_vars

\* Every line of current was new, so the result holds a dict equal to a
\* dict of current; the caller changed the returned one, and current still
\* holds its own.
C26_Witness ==
    /\ hpc = "result_changed"
    /\ heap_fn = "line_increment"
    /\ \E f \in DOMAIN ResultMap :
           /\ f \in DOMAIN SecondMap
           /\ DOMAIN ResultMap[f] = DOMAIN SecondMap[f]
           /\ \E l \in DOMAIN ResultMap[f] :
                  /\ ResultMap[f][l] = MaxCount + 1
                  /\ SecondMap[f][l] <= MaxCount

\* Map d is one the line parser can return: every stored hit count is > 0
\* and no file maps to an empty dict.
ParserProduced(d) ==
    \A f \in DOMAIN d : DOMAIN d[f] # {} /\ \A l \in DOMAIN d[f] : d[f][l] > 0

\* C27: when both inputs of calculate_line_coverage_increment are maps the
\* line parser can return, no line of baseline is in the result (the
\* 'improved from 0' case does not fire), and the result is exactly the
\* entries of current whose (file, line) is absent from baseline.
C27_ParserInputsGiveKeyDifference ==
    (op = "line_increment" /\ ParserProduced(first) /\ ParserProduced(second)) =>
        /\ \A f \in Files : \A l \in Lines :
               InResult(f, l) <=> (l \in LinesOf(second, f) /\ l \notin LinesOf(first, f))
        /\ \A f \in DOMAIN result : \A l \in DOMAIN result[f] :
               result[f][l] = second[f][l]

\* A line covered in both with a higher count in current is left out, a
\* line of current alone is in the result.
C27_Witness ==
    /\ op = "line_increment"
    /\ ParserProduced(first)
    /\ ParserProduced(second)
    /\ \E f \in Files : \E l \in Lines :
           /\ InBoth(f, l)
           /\ first[f][l] < second[f][l]
           /\ ~InResult(f, l)
    /\ \E f \in Files : \E l \in Lines :
           /\ l \in LinesOf(second, f)
           /\ l \notin LinesOf(first, f)
           /\ InResult(f, l)

\* C28: a map has no increment over itself, for the line and the branch
\* function; and the increment of an increment against the same baseline is
\* that increment.
C28_NoSelfIncrementAndStable ==
    /\ []((IsIncrement /\ first = second) => result = EmptyDict)
    /\ [][op' \in {"line_increment_again", "branch_increment_again"}
            => result' = result]_vars

\* The first increment left lines of current out and kept others; the
\* second call returned the same map.
C28_Witness ==
    /\ op = "line_increment_again"
    /\ result # EmptyDict
    /\ result # second
    /\ \E f \in Files : \E l \in Lines : InBoth(f, l) /\ InResult(f, l)

\* The line entries of the returned list.
ShownAt(x) == { p \in DOMAIN result_lines : result_lines[p] = <<x, FALSE>> }

\* C29: every line to highlight that lies in 1..max_lines is returned exactly
\* once as a line entry, and every line entry lies within context_lines of
\* a line to highlight.
C29_HighlightsShownOnceWithinContext ==
    Returned =>
        /\ \A x \in line_numbers :
               (1 <= x /\ x <= max_lines) => Cardinality(ShownAt(x)) = 1
        /\ \A p \in DOMAIN result_lines :
               ~IsSeparator(result_lines[p]) =>
                   \E x \in line_numbers :
                       /\ result_lines[p][1] >= x - context_lines
                       /\ result_lines[p][1] <= x + context_lines

\* Two windows that overlap were merged, a line to highlight lies beyond
\* the end of the file, and the lines in the file are shown.
C29_Witness ==
    /\ Returned
    /\ context_lines >= 1
    /\ Len(merged_ranges) < Len(extended_ranges)
    /\ \E x \in line_numbers : x > max_lines
    /\ \E x \in line_numbers, y \in line_numbers :
           /\ x < y /\ y <= max_lines
           /\ y - context_lines <= x + context_lines
           /\ ShownAt(x) # {} /\ ShownAt(y) # {}

\* Reading a call of execute_test_case from outside the code under check.
PhaseOrder == <<"preconditions", "collect_precondition", "property", "collect_property">>
Ended == rpc \in {"returned", "raised"}
Invoked(what) == \E i \in DOMAIN calls : calls[i] = what
\* What a phase whose callback behaves as callback must record.
ExpectedResult(callback) ==
    IF callback.raises
    THEN [ status |-> "ERROR", error_message |-> callback.message ]
    ELSE [ status |-> "SUCCESS", error_message |-> "None" ]

\* C30: execute_test_case invokes preconditions, the precondition coverage
\* collection, property and the property coverage collection in this order;
\* an exception of a callback is recorded as ERROR with its message for its
\* own phase only and does not stop the run: the coverage of the phase is
\* collected all the same, and property is invoked iff the precondition
\* coverage collection returned, whether or not preconditions raised.
C30_PhasesInOrderErrorsRecorded ==
    /\ rpc # "idle" => calls = SubSeq(PhaseOrder, 1, Len(calls))
    /\ Ended =>
           /\ Invoked("collect_precondition")
           /\ Invoked("property") <=> collections[1] = "ok"
           /\ Invoked("property") => Invoked("collect_property")
           /\ rpc = "returned" <=> (collections[1] = "ok" /\ collections[2] = "ok")
           /\ rpc = "raised" =>
                  propagated = (IF collections[1] # "ok" THEN collections[1]
                                ELSE collections[2])
    /\ Invoked("property") =>
           /\ test_data.precondition_result = ExpectedResult(test_case.preconditions)
           /\ test_data.precondition_coverage_data.xml_path =
                  "out/" \o test_case.name \o "_precondition/" \o test_case.name \o ".xml"
    /\ rpc = "returned" =>
           /\ test_data.property_result = ExpectedResult(test_case.property)
           /\ test_data.property_coverage_data.xml_path =
                  "out/" \o test_case.name \o "_property/" \o test_case.name \o ".xml"

\* preconditions raised and property returned: the run went through all
\* four steps, with ERROR recorded for the precondition phase alone.
C30_Witness ==
    /\ rpc = "returned"
    /\ test_case.preconditions.raises
    /\ ~test_case.property.raises
    /\ calls = PhaseOrder
    /\ test_data.precondition_result.status = "ERROR"
    /\ test_data.precondition_result.error_message = test_case.preconditions.message
    /\ test_data.property_result.status = "SUCCESS"

====
